---- MODULE Spec2Model ----
(***************************************************************************)
(* A model of umaapy's UMAA multi-topic assembly engine: the reader graph  *)
(* (ReaderNode and the GenSpec / LargeSet / LargeList reader decorators),  *)
(* the UmaaReaderAdapter at the root, and the writer graph.                *)
(***************************************************************************)
EXTENDS Integers, Sequences, FiniteSets, TLC

(* ------------------------------------------------------------------ *)
(* Values                                                              *)
(* ------------------------------------------------------------------ *)

\* Python's None, kept an integer so that it compares with GUIDs and timestamps.
None == 0 - 1

\* uuid_factory.NIL_GUID: the all-zero GUID.
NIL_GUID == 0

\* GUIDs the remote writers use are 0..MaxGuid (0 is NIL_GUID).
MaxGuid == 1
\* Timestamps are 1..MaxTs.
MaxTs == 2
\* Records and child callbacks delivered to the reader node in one behaviour.
MaxArrivals == 3
\* Records one take() can return.
MaxBatch == 2
\* Element ids a buffer handed to _ordered_chain draws from (0..MaxChainId).
MaxChainId == 2
\* Elements in one collection of a builder.
MaxItems == 2
\* publish calls on one builder.
MaxPublish == 2
\* The writes of one publish call among which the transport can fail one.
MaxFail == 4
\* update calls on one command.
MaxUpdates == 2
\* Ticks of time.monotonic().
MaxClock == 3
\* Worker threads of the pool (THREAD_POOL_SIZE).
MaxWorkers == 2
\* Tasks submitted to one processor, one-off and recurring together.
MaxTasks == 2
\* interval_ms of the recurring task, in ticks.
Interval == 1
\* Calls of submit and submit_recurring that raise RuntimeError.
MaxRejected == 1
\* Calls of read and take the application makes on one adapter.
MaxTakes == 2
\* Threads that construct the same singleton class concurrently.
MaxConstructors == 3

GUIDS == 0..MaxGuid
Stamps == 1..MaxTs

\* Roles as dds_configurator registers them: the set / list logical name, "gen_spec".
SetName == "items"
ListName == "waypoints"
GenRole == "gen_spec"
\* Where the generalization lives in the root sample (GenSpecReader.attr_path).
AttrPath == <<"objective">>
\* Specialization child names (topics) attached under "gen_spec".
SpecTopics == {"RouteObjectiveType", "StationkeepObjectiveType"}
SetChild == "ItemsSetElement"
ListChild == "WaypointsListElement"

(* ------------------------------------------------------------------ *)
(* dict helpers: a dict is a function, an insertion-ordered dict of    *)
(* elements is a sequence with distinct elementIDs                     *)
(* ------------------------------------------------------------------ *)

Put(d, k, v) == [x \in (DOMAIN d) \cup {k} |-> IF x = k THEN v ELSE d[x]]

BucketHas(b, id) == \E i \in 1..Len(b) : b[i].elementID = id

BucketGet(b, id) == b[CHOOSE i \in 1..Len(b) : b[i].elementID = id]

BucketPut(b, e) ==
    IF BucketHas(b, e.elementID)
    THEN [i \in 1..Len(b) |-> IF b[i].elementID = e.elementID THEN e ELSE b[i]]
    ELSE Append(b, e)

\* getattr(obj, name, None) on a record
GetAttr(obj, name) == IF name \in DOMAIN obj THEN obj[name] ELSE None

(* ------------------------------------------------------------------ *)
(* State                                                               *)
(* ------------------------------------------------------------------ *)

VARIABLES
    decorators,            \* ReaderNode._decorators: the roles, in registration order
    consumer,              \* ReaderNode.parent_notify: "adapter" or "callback"
    combined_by_key,       \* ReaderNode._combined_by_key
    info_by_key,           \* ReaderNode._info_by_key
    colls,                 \* the collections dict objects, by the key they were created for
    elems_by_set,          \* LargeSetReader._elems_by_set
    meta_by_set,           \* LargeSetReader._meta_by_set
    parent_key_by_set,     \* LargeSetReader._parent_key_by_set
    elems_by_list,         \* LargeListReader._elems_by_list
    meta_by_list,          \* LargeListReader._meta_by_list
    parent_key_by_list,    \* LargeListReader._parent_key_by_list
    gen_by_spec_id,        \* GenSpecReader._gen_by_spec_id
    spec_by_topic_id,      \* GenSpecReader._spec_by_topic_id
    parent_key_by_spec_id, \* GenSpecReader._parent_key_by_spec_id
    calls,                 \* every invocation of parent_notify, in order
    signalled,             \* per key, the roles that returned AssemblySignal(complete=True)
    buf,                   \* UmaaReaderAdapter._buf
    heard,                 \* on_data_available calls made to the user listener
    leaf_combined_by_key,  \* per child node: its ReaderNode._combined_by_key
    leaf_info_by_key,      \* per child node: its ReaderNode._info_by_key
    wire,                  \* per node: records its transport reader holds, not yet taken
    nextKey,               \* the next id(sample) the key function returns
    arrivals,              \* records and callbacks delivered so far
    childLog,              \* the assembled samples children handed up, in order
    pollRaised,            \* the last poll_once call raised
    chainElems,            \* _ordered_chain: elems_by_id
    chainStart,            \* _ordered_chain: start_k
    chainSt,               \* _ordered_chain: cur, ordered, visited
    chainPc,               \* _ordered_chain: "idle", "call", "loop" or "done"
    builder,               \* the CombinedBuilder the application holds, with every object it reaches
    writeBase,             \* per writer node: WriterNode._write_base
    wcalls,                \* one record per publish call on the root writer node
    nextGuid,              \* the next value generate_guid returns
    mutated,               \* the application changed the builder since the last publish
    viewObj,               \* the OverlayView an attribute is looked up on
    viewName,              \* the attribute name
    viewResult,            \* what __getattr__ returned or raised
    viewPc,                \* "idle", "call" or "done"
    pollSt,                \* the poll_once call a transport thread is inside: its locals
    ep,                    \* the EventProcessor, its threads and its callers
    cmd,                   \* a UmaaCommand, the thread in execute and its controller
    cls,                   \* classify_obj_by_umaa: the object and the returned map
    adp,                   \* a UmaaReaderAdapter with the threads that emit to it and take from it
    inst                   \* a singleton class and the threads that construct it

readerVars == <<decorators, consumer, combined_by_key, info_by_key, colls,
                elems_by_set, meta_by_set, parent_key_by_set,
                elems_by_list, meta_by_list, parent_key_by_list,
                gen_by_spec_id, spec_by_topic_id, parent_key_by_spec_id,
                calls, signalled, buf, heard, leaf_combined_by_key, leaf_info_by_key,
                wire, nextKey, arrivals, childLog, pollRaised>>

chainVars == <<chainElems, chainStart, chainSt, chainPc>>

writerVars == <<builder, writeBase, wcalls, nextGuid, mutated>>

viewVars == <<viewObj, viewName, viewResult, viewPc>>

utilVars == <<cls, adp, inst>>

procVars == <<ep, cmd, utilVars>>

vars == <<readerVars, chainVars, writerVars, viewVars, pollSt, procVars>>

\* What the actions of one part leave alone.
otherThanReader == <<chainVars, writerVars, viewVars, pollSt, procVars>>

otherThanChain == <<readerVars, writerVars, viewVars, pollSt, procVars>>

otherThanView == <<readerVars, chainVars, writerVars, pollSt, procVars>>

otherThanProcessor == <<readerVars, chainVars, writerVars, viewVars, pollSt, cmd, utilVars>>

otherThanCommand == <<readerVars, chainVars, writerVars, viewVars, pollSt, ep, utilVars>>

otherThanClassifier == <<readerVars, chainVars, writerVars, viewVars, pollSt, ep, cmd, adp, inst>>

otherThanAdapter == <<readerVars, chainVars, writerVars, viewVars, pollSt, ep, cmd, cls, inst>>

otherThanSingleton == <<readerVars, chainVars, writerVars, viewVars, pollSt, ep, cmd, cls, adp>>

otherThanWriter == <<chainVars, viewVars, pollSt, procVars, decorators, consumer, combined_by_key, info_by_key, colls,
                     elems_by_set, meta_by_set, parent_key_by_set,
                     elems_by_list, meta_by_list, parent_key_by_list,
                     gen_by_spec_id, spec_by_topic_id, parent_key_by_spec_id,
                     calls, signalled, buf, heard, leaf_combined_by_key, leaf_info_by_key,
                     nextKey, arrivals, childLog, pollRaised>>

\* The node, its decorators and its consumer as one value the handlers thread through.
World ==
    [cbk |-> combined_by_key, ibk |-> info_by_key, colls |-> colls,
     elems_by_set |-> elems_by_set, meta_by_set |-> meta_by_set,
     parent_key_by_set |-> parent_key_by_set,
     elems_by_list |-> elems_by_list, meta_by_list |-> meta_by_list,
     parent_key_by_list |-> parent_key_by_list,
     gen_by_spec_id |-> gen_by_spec_id, spec_by_topic_id |-> spec_by_topic_id,
     parent_key_by_spec_id |-> parent_key_by_spec_id,
     calls |-> calls, signalled |-> signalled, buf |-> buf, heard |-> heard,
     leaf_cbk |-> leaf_combined_by_key, leaf_ibk |-> leaf_info_by_key,
     childLog |-> childLog]

SetWorld(w) ==
    /\ combined_by_key' = w.cbk
    /\ info_by_key' = w.ibk
    /\ colls' = w.colls
    /\ elems_by_set' = w.elems_by_set
    /\ meta_by_set' = w.meta_by_set
    /\ parent_key_by_set' = w.parent_key_by_set
    /\ elems_by_list' = w.elems_by_list
    /\ meta_by_list' = w.meta_by_list
    /\ parent_key_by_list' = w.parent_key_by_list
    /\ gen_by_spec_id' = w.gen_by_spec_id
    /\ spec_by_topic_id' = w.spec_by_topic_id
    /\ parent_key_by_spec_id' = w.parent_key_by_spec_id
    /\ calls' = w.calls
    /\ signalled' = w.signalled
    /\ buf' = w.buf
    /\ heard' = w.heard
    /\ leaf_combined_by_key' = w.leaf_cbk
    /\ leaf_info_by_key' = w.leaf_ibk
    /\ childLog' = w.childLog

(* ------------------------------------------------------------------ *)
(* CombinedSample                                                      *)
(* ------------------------------------------------------------------ *)

\* CombinedSample(base=...): `coll` names the collections dict object, which
\* with_overlay / add_overlay_at hand on to the new instance unchanged.
CombinedSample(base, ref) ==
    [base |-> base, coll |-> ref, overlay |-> <<>>, overlays_by_path |-> <<>>]

with_overlay(c, spec) == [c EXCEPT !.overlay = <<spec>>]

add_overlay_at(c, path, spec) ==
    [c EXCEPT !.overlays_by_path = Put(@, path, spec)]

\* What a decorator hook hands back: the state, the complete signals' keys, or a raise.
Ret(w, sigs) == [w |-> w, sigs |-> sigs, raised |-> FALSE]
Raise(w) == [w |-> w, sigs |-> <<>>, raised |-> TRUE]

(* ------------------------------------------------------------------ *)
(* LargeSetReader                                                      *)
(* ------------------------------------------------------------------ *)

LargeSetReader_meta_ids(parent_sample) ==
    LET m == parent_sample.itemsSetMetadata
    IN [set_id |-> m.setID,
        upd_id |-> GetAttr(m, "updateElementID"),
        upd_ts |-> GetAttr(m, "updateElementTimestamp")]

LargeSetReader_on_reader_data(w, key, combined, sample) ==
    LET ids == LargeSetReader_meta_ids(sample)
        w1 == [w EXCEPT !.meta_by_set = Put(@, ids.set_id, sample),
                        !.parent_key_by_set = Put(@, ids.set_id, key)]
        bucket == IF ids.set_id \in DOMAIN w.elems_by_set
                  THEN w.elems_by_set[ids.set_id] ELSE <<>>
    IN IF ids.upd_id = None THEN Ret(w1, <<>>)
       ELSE IF ~BucketHas(bucket, ids.upd_id) THEN Ret(w1, <<>>)
       ELSE IF /\ ids.upd_ts # None
               /\ GetAttr(BucketGet(bucket, ids.upd_id), "elementTimestamp") # ids.upd_ts
            THEN Ret(w1, <<>>)
       ELSE Ret([w1 EXCEPT
                   !.colls = Put(@, combined.coll, Put(@[combined.coll], SetName, bucket)),
                   !.cbk = Put(@, key, combined)],
                <<key>>)

\* on_child_assembled publishing the arriving element alone.
LargeSetReader_on_child_assembled_alone(w, child_name, assembled) ==
    LET elem == assembled.base
        set_id == elem.setID
        old == IF set_id \in DOMAIN w.elems_by_set THEN w.elems_by_set[set_id] ELSE <<>>
        w1 == [w EXCEPT !.elems_by_set = Put(@, set_id, BucketPut(old, elem))]
    IN IF set_id \notin DOMAIN w.meta_by_set THEN Ret(w1, <<>>)
       ELSE LET ids == LargeSetReader_meta_ids(w.meta_by_set[set_id])
            IN IF ids.upd_id = None \/ ids.upd_id # elem.elementID THEN Ret(w1, <<>>)
               ELSE IF ids.upd_ts # None /\ elem.elementTimestamp # ids.upd_ts THEN Ret(w1, <<>>)
               ELSE LET parent_key == w.parent_key_by_set[set_id]
                        comb == w.cbk[parent_key]
                    IN Ret([w1 EXCEPT !.colls = Put(@, comb.coll,
                                                    Put(@[comb.coll], SetName, <<elem>>))],
                           <<parent_key>>)

LargeSetReader_on_child_assembled(w, child_name, assembled) ==
    LET elem == assembled.base
        set_id == elem.setID
        elem_id == elem.elementID
        elem_ts == GetAttr(elem, "elementTimestamp")
        old == IF set_id \in DOMAIN w.elems_by_set THEN w.elems_by_set[set_id] ELSE <<>>
        bucket == BucketPut(old, elem)
        w1 == [w EXCEPT !.elems_by_set = Put(@, set_id, bucket)]
    IN IF set_id \notin DOMAIN w.meta_by_set THEN Ret(w1, <<>>)
       ELSE LET ids == LargeSetReader_meta_ids(w.meta_by_set[set_id])
            IN IF ids.upd_id = None THEN Ret(w1, <<>>)
               ELSE IF ids.upd_id # elem_id THEN Ret(w1, <<>>)
               ELSE IF ids.upd_ts # None /\ elem_ts # ids.upd_ts THEN Ret(w1, <<>>)
               ELSE IF set_id \notin DOMAIN w.parent_key_by_set THEN Ret(w1, <<>>)
               ELSE LET parent_key == w.parent_key_by_set[set_id]
                    IN IF parent_key \notin DOMAIN w.cbk THEN Ret(w1, <<>>)
                       ELSE LET comb == w.cbk[parent_key]
                            IN Ret([w1 EXCEPT
                                      !.colls = Put(@, comb.coll,
                                                    Put(@[comb.coll], SetName, bucket)),
                                      !.cbk = Put(@, parent_key, comb)],
                                   <<parent_key>>)

(* ------------------------------------------------------------------ *)
(* LargeListReader                                                     *)
(* ------------------------------------------------------------------ *)

LargeListReader_meta_ids(parent_sample) ==
    LET m == parent_sample.waypointsListMetadata
    IN [list_id |-> m.listID,
        start_id |-> GetAttr(m, "startingElementID"),
        upd_id |-> GetAttr(m, "updateElementID"),
        upd_ts |-> GetAttr(m, "updateElementTimestamp")]

\* The while loop of _ordered_chain: its condition, one iteration, the loop.
ChainStart(start_k) == [cur |-> start_k, ordered |-> <<>>, visited |-> {}]

\* The loop condition without "cur not in visited".
ChainCond_no_visited(elems_by_id, st) ==
    /\ st.cur # None
    /\ BucketHas(elems_by_id, st.cur)

ChainCond(elems_by_id, st) ==
    /\ st.cur # None
    /\ BucketHas(elems_by_id, st.cur)
    /\ st.cur \notin st.visited

ChainIter(elems_by_id, st) ==
    LET e == BucketGet(elems_by_id, st.cur)
    IN [cur |-> GetAttr(e, "nextElementID"),
        ordered |-> Append(st.ordered, e),
        visited |-> st.visited \cup {st.cur}]

RECURSIVE ChainLoop(_, _)
ChainLoop(elems_by_id, st) ==
    IF ChainCond(elems_by_id, st)
    THEN ChainLoop(elems_by_id, ChainIter(elems_by_id, st))
    ELSE st.ordered

ordered_chain(elems_by_id, start_k) ==
    IF elems_by_id = <<>> THEN <<>>
    ELSE IF start_k = None THEN elems_by_id
    ELSE ChainLoop(elems_by_id, ChainStart(start_k))

LargeListReader_on_reader_data(w, key, combined, sample) ==
    LET ids == LargeListReader_meta_ids(sample)
        w1 == [w EXCEPT !.meta_by_list = Put(@, ids.list_id, sample),
                        !.parent_key_by_list = Put(@, ids.list_id, key)]
        bucket == IF ids.list_id \in DOMAIN w.elems_by_list
                  THEN w.elems_by_list[ids.list_id] ELSE <<>>
    IN IF ids.upd_id = None THEN Ret(w1, <<>>)
       ELSE IF ~BucketHas(bucket, ids.upd_id) THEN Ret(w1, <<>>)
       ELSE IF /\ ids.upd_ts # None
               /\ GetAttr(BucketGet(bucket, ids.upd_id), "elementTimestamp") # ids.upd_ts
            THEN Ret(w1, <<>>)
       ELSE Ret([w1 EXCEPT
                   !.colls = Put(@, combined.coll,
                                 Put(@[combined.coll], ListName,
                                     ordered_chain(bucket, ids.start_id))),
                   !.cbk = Put(@, key, combined)],
                <<key>>)

LargeListReader_on_child_assembled(w, child_name, assembled) ==
    LET elem == assembled.base
        list_id == elem.listID
        elem_id == elem.elementID
        elem_ts == GetAttr(elem, "elementTimestamp")
        old == IF list_id \in DOMAIN w.elems_by_list THEN w.elems_by_list[list_id] ELSE <<>>
        bucket == BucketPut(old, elem)
        w1 == [w EXCEPT !.elems_by_list = Put(@, list_id, bucket)]
    IN IF list_id \notin DOMAIN w.meta_by_list THEN Ret(w1, <<>>)
       ELSE LET ids == LargeListReader_meta_ids(w.meta_by_list[list_id])
            IN IF ids.upd_id = None THEN Ret(w1, <<>>)
               ELSE IF ids.upd_id # elem_id THEN Ret(w1, <<>>)
               ELSE IF ids.upd_ts # None /\ elem_ts # ids.upd_ts THEN Ret(w1, <<>>)
               ELSE IF list_id \notin DOMAIN w.parent_key_by_list THEN Ret(w1, <<>>)
               ELSE LET parent_key == w.parent_key_by_list[list_id]
                    IN IF parent_key \notin DOMAIN w.cbk THEN Ret(w1, <<>>)
                       ELSE LET comb == w.cbk[parent_key]
                            IN Ret([w1 EXCEPT
                                      !.colls = Put(@, comb.coll,
                                                    Put(@[comb.coll], ListName,
                                                        ordered_chain(bucket, ids.start_id))),
                                      !.cbk = Put(@, parent_key, comb)],
                                   <<parent_key>>)

(* ------------------------------------------------------------------ *)
(* GenSpecReader                                                       *)
(* ------------------------------------------------------------------ *)

GenSpecReader_gen_binding(gen) ==
    [topic |-> gen.specializationTopic,
     sid |-> gen.specializationID,
     sts |-> GetAttr(gen, "specializationTimestamp")]

\* getattr(spec, "specializationID") has no default: a specialization object
\* without that attribute makes the hook raise AttributeError.
GenSpecReader_spec_binding(spec) ==
    IF "specializationID" \in DOMAIN spec
    THEN [ok |-> TRUE, sid |-> spec.specializationID,
          sts |-> GetAttr(spec, "specializationTimestamp")]
    ELSE [ok |-> FALSE, sid |-> None, sts |-> None]

InstallOverlay(comb, spec) ==
    IF AttrPath # <<>> THEN add_overlay_at(comb, AttrPath, spec) ELSE with_overlay(comb, spec)

GenSpecReader_on_reader_data(w, key, combined, sample) ==
    LET gen_obj == IF AttrPath # <<>> THEN sample[AttrPath[1]] ELSE sample
        g == GenSpecReader_gen_binding(gen_obj)
        w1 == [w EXCEPT !.gen_by_spec_id = Put(@, g.sid, gen_obj),
                        !.parent_key_by_spec_id = Put(@, g.sid, key)]
        have == /\ g.topic \in DOMAIN w.spec_by_topic_id
                /\ g.sid \in DOMAIN w.spec_by_topic_id[g.topic]
    IN IF ~have THEN Ret(w1, <<>>)
       ELSE LET spec == w.spec_by_topic_id[g.topic][g.sid]
                s == GenSpecReader_spec_binding(spec)
            IN IF ~s.ok THEN Raise(w1)
               ELSE IF s.sid = g.sid /\ (g.sts = None \/ s.sts = g.sts)
               THEN Ret([w1 EXCEPT !.cbk = Put(@, key, InstallOverlay(combined, spec))],
                        <<key>>)
               ELSE Ret(w1, <<>>)

GenSpecReader_on_child_assembled(w, child_name, assembled) ==
    LET spec == assembled.base
        s == GenSpecReader_spec_binding(spec)
    IN IF ~s.ok THEN Raise(w)
       ELSE
       LET old == IF child_name \in DOMAIN w.spec_by_topic_id
                  THEN w.spec_by_topic_id[child_name] ELSE <<>>
           w1 == [w EXCEPT !.spec_by_topic_id = Put(@, child_name, Put(old, s.sid, spec))]
       IN IF s.sid \notin DOMAIN w.gen_by_spec_id THEN Ret(w1, <<>>)
          ELSE LET g == GenSpecReader_gen_binding(w.gen_by_spec_id[s.sid])
               IN IF \/ g.topic # child_name
                     \/ g.sid # s.sid
                     \/ (g.sts # None /\ g.sts # s.sts)
                  THEN Ret(w1, <<>>)
                  ELSE IF s.sid \notin DOMAIN w.parent_key_by_spec_id THEN Ret(w1, <<>>)
                  ELSE LET parent_key == w.parent_key_by_spec_id[s.sid]
                       IN IF parent_key \notin DOMAIN w.cbk THEN Ret(w1, <<>>)
                          ELSE Ret([w1 EXCEPT
                                      !.cbk = Put(@, parent_key,
                                                  InstallOverlay(w.cbk[parent_key], spec))],
                                   <<parent_key>>)

(* ------------------------------------------------------------------ *)
(* UmaaReaderAdapter and the call of parent_notify                     *)
(* ------------------------------------------------------------------ *)

\* Positional arguments ReaderNode passes to parent_notify: (key, combined, info).
NotifyArgs == 3
\* Positional parameters of UmaaReaderAdapter's consumer, _on_ready(_key, combined).
OnReadyParams == 2

\* The body of _on_ready: buffer the sample, then call the user listener.
on_ready(w, combined) ==
    [w EXCEPT !.buf = Append(@, combined), !.heard = @ + 1]

\* The root's parent_notify called once. `combined` and `info` are <<>> for None.
\* Calling the adapter's consumer with a different number of arguments than it
\* has parameters raises TypeError before its body runs.
Notify(w, key, combined, info, by, via) ==
    LET accepted == consumer # "adapter" \/ NotifyArgs = OnReadyParams
        call == [key |-> key, combined |-> combined, info |-> info, by |-> by,
                 via |-> via, ok |-> accepted,
                 items |-> IF combined = <<>> THEN <<>> ELSE w.colls[combined[1].coll],
                 done |-> IF key \in DOMAIN w.signalled THEN w.signalled[key] ELSE {}]
        w1 == [w EXCEPT !.calls = Append(@, call)]
    IN IF ~accepted THEN [w |-> w1, raised |-> TRUE]
       ELSE IF consumer = "adapter" THEN [w |-> on_ready(w1, combined), raised |-> FALSE]
       ELSE [w |-> w1, raised |-> FALSE]

(* ------------------------------------------------------------------ *)
(* ReaderNode                                                          *)
(* ------------------------------------------------------------------ *)

Root == "root"

\* The children attach_child wired under a role (the element topic of a set or
\* list, the specialization topics under "gen_spec").
ChildNames(role) ==
    IF role = SetName THEN {SetChild}
    ELSE IF role = ListName THEN {ListChild}
    ELSE SpecTopics

RoleOfChild(child_name) ==
    IF child_name = SetChild THEN SetName
    ELSE IF child_name = ListChild THEN ListName
    ELSE GenRole

Children == {SetChild, ListChild} \cup SpecTopics

\* self._decorators of a node: the root's registered roles; a child node that
\* reads an element or specialization topic has none.
DecoratorsOf(node) == IF node = Root THEN decorators ELSE <<>>

on_reader_data(role, w, key, combined, sample) ==
    IF role = SetName THEN LargeSetReader_on_reader_data(w, key, combined, sample)
    ELSE IF role = ListName THEN LargeListReader_on_reader_data(w, key, combined, sample)
    ELSE GenSpecReader_on_reader_data(w, key, combined, sample)

on_child_assembled(role, w, child_name, assembled) ==
    IF role = SetName THEN LargeSetReader_on_child_assembled(w, child_name, assembled)
    ELSE IF role = ListName THEN LargeListReader_on_child_assembled(w, child_name, assembled)
    ELSE GenSpecReader_on_child_assembled(w, child_name, assembled)

\* "for sig in ...: if sig.complete and self.parent_notify is not None: parent_notify(...)"
\* on the root, inside the try: a raise from the consumer ends the loop.
RECURSIVE SignalLoop(_, _, _, _, _)
SignalLoop(w, sigs, role, fallback, via) ==
    IF sigs = <<>> THEN w
    ELSE LET k == Head(sigs)
             had == IF k \in DOMAIN w.signalled THEN w.signalled[k] ELSE {}
             w1 == [w EXCEPT !.signalled = Put(@, k, had \cup {role})]
             comb == IF k \in DOMAIN w1.cbk THEN w1.cbk[k] ELSE fallback
             info == IF k \in DOMAIN w1.ibk THEN <<w1.ibk[k]>> ELSE <<>>
             r == Notify(w1, k, <<comb>>, info, role, via)
         IN IF r.raised THEN r.w ELSE SignalLoop(r.w, Tail(sigs), role, fallback, via)

\* "for deco in list(self._decorators.values()): try: ... except Exception: log"
RECURSIVE RunDecorators(_, _, _, _, _)
RunDecorators(w, decos, key, combined, sample) ==
    IF decos = <<>> THEN w
    ELSE LET r == on_reader_data(Head(decos), w, key, combined, sample)
             w1 == IF r.raised THEN r.w
                   ELSE SignalLoop(r.w, r.sigs, Head(decos), combined, "poll")
         IN RunDecorators(w1, Tail(decos), key, combined, sample)

\* A _child_ready that bubbles a child's disposal (assembled None) up to the
\* node's own parent_notify, as poll_once does for the node's own disposals.
child_ready_forwarding_none(w, role, child_name, assembled) ==
    IF assembled = <<>> THEN Notify(w, 0, <<>>, <<>>, role, "child").w
    ELSE IF \A i \in 1..Len(decorators) : decorators[i] # role THEN w
    ELSE LET w0 == [w EXCEPT !.childLog = Append(@, [role |-> role, child |-> child_name,
                                                      base |-> assembled[1].base])]
             r == on_child_assembled(role, w0, child_name, assembled[1])
         IN IF r.raised THEN r.w ELSE SignalLoop(r.w, r.sigs, role, assembled[1], "child")

\* The closure attach_child installs on the root as a child's parent_notify.
child_ready(w, role, child_name, assembled) ==
    IF assembled = <<>> THEN w
    ELSE IF \A i \in 1..Len(decorators) : decorators[i] # role THEN w
    ELSE LET w0 == [w EXCEPT !.childLog = Append(@, [role |-> role, child |-> child_name,
                                                      base |-> assembled[1].base])]
             r == on_child_assembled(role, w0, child_name, assembled[1])
         IN IF r.raised THEN r.w ELSE SignalLoop(r.w, r.sigs, role, assembled[1], "child")

\* One iteration of poll_once's loop over the taken records, on any node.
PollRecord(w, node, key, rec) ==
    IF ~rec.info.valid
    THEN IF node = Root
         THEN Notify([w EXCEPT !.ibk = Put(@, key, rec.info)],
                     key, <<>>, <<rec.info>>, "dispose", "poll")
         ELSE [w |-> child_ready([w EXCEPT !.leaf_ibk[node] = Put(@, key, rec.info)],
                                 RoleOfChild(node), node, <<>>),
               raised |-> FALSE]
    ELSE LET combined == CombinedSample(rec.data, key)
             w1 == IF node = Root
                   THEN [w EXCEPT !.ibk = Put(@, key, rec.info),
                                  !.cbk = Put(@, key, combined),
                                  !.colls = Put(@, key, <<>>)]
                   ELSE [w EXCEPT !.leaf_ibk[node] = Put(@, key, rec.info),
                                  !.leaf_cbk[node] = Put(@, key, combined)]
         IN [w |-> RunDecorators(w1, DecoratorsOf(node), key, combined, rec.data),
             raised |-> FALSE]

\* poll_once over everything take() returned; an exception that leaves the loop
\* drops the records not yet processed.
RECURSIVE PollLoop(_, _, _, _)
PollLoop(w, node, key, recs) ==
    IF recs = <<>> THEN [w |-> w, key |-> key, raised |-> FALSE]
    ELSE LET r == PollRecord(w, node, key, Head(recs))
         IN IF r.raised THEN [w |-> r.w, key |-> key + 1, raised |-> TRUE]
            ELSE PollLoop(r.w, node, key + 1, Tail(recs))

(* ------------------------------------------------------------------ *)
(* What the transport and the child nodes can deliver                  *)
(* ------------------------------------------------------------------ *)

HasRole(role) == \E i \in 1..Len(decorators) : decorators[i] = role

\* The timestamp gate is explored in full on a node with the set decorator alone;
\* list and two-decorator nodes see metadata without the optional timestamp and
\* one collection.
Wide == decorators = <<SetName>>
MetaStamps == IF Wide THEN Stamps \cup {None} ELSE {None}
ElemStamps == IF Wide THEN Stamps ELSE {1}
CollIDs == IF Len(decorators) = 1 THEN GUIDS ELSE {1}

\* Set metadata of a set with elements, and of an empty set: size 0 and the
\* updateElementID the writer left unassigned (absent, or the nil GUID).
SetMetas ==
    IF HasRole(SetName)
    THEN [setID : CollIDs, updateElementID : GUIDS \cup {None},
          updateElementTimestamp : MetaStamps, size : {1}]
         \cup [setID : CollIDs, updateElementID : IF Wide THEN {None, NIL_GUID} ELSE {None},
               updateElementTimestamp : {None}, size : {0}]
    ELSE {[setID |-> NIL_GUID, updateElementID |-> None, updateElementTimestamp |-> None,
           size |-> 0]}

ListMetas ==
    IF HasRole(ListName)
    THEN [listID : CollIDs, startingElementID : GUIDS \cup {None},
          updateElementID : GUIDS \cup {None}, updateElementTimestamp : MetaStamps]
    ELSE {[listID |-> NIL_GUID, startingElementID |-> None, updateElementID |-> None,
           updateElementTimestamp |-> None]}

Generalizations ==
    IF HasRole(GenRole)
    THEN [specializationTopic : SpecTopics, specializationID : GUIDS,
          specializationTimestamp : MetaStamps \cup {1}]
    ELSE {[specializationTopic |-> "", specializationID |-> NIL_GUID,
           specializationTimestamp |-> None]}

RootSamples ==
    [itemsSetMetadata : SetMetas, waypointsListMetadata : ListMetas,
     objective : Generalizations]

SetElements == [setID : CollIDs, elementID : GUIDS, elementTimestamp : ElemStamps]

ListElements ==
    [listID : CollIDs, elementID : GUIDS, nextElementID : GUIDS \cup {None},
     elementTimestamp : ElemStamps]

\* UMAAConcept.SPECIALIZATION: the attributes a specialization type carries; a
\* specialization that is itself a generalization carries those of
\* UMAAConcept.GENERALIZATION as well.
Specializations ==
    [specializationReferenceID : GUIDS, specializationReferenceTimestamp : {1},
     speed : {3}]
    \cup [specializationReferenceID : GUIDS, specializationReferenceTimestamp : {1},
          speed : {3}, specializationID : GUIDS, specializationTimestamp : {1}]

AliveInfo == [valid |-> TRUE, state |-> "Alive"]
DisposeInfos == [valid : {FALSE}, state : {"NotAliveDisposed", "NotAliveNoWriters"}]

\* What the child under a role can hand up.
ChildBases(role) ==
    IF role = SetName THEN SetElements
    ELSE IF role = ListName THEN ListElements
    ELSE Specializations

(* ------------------------------------------------------------------ *)
(* The reader node as a state machine                                  *)
(* ------------------------------------------------------------------ *)

\* No thread is inside poll_once.
PollIdle == [pc |-> "idle", recs |-> <<>>, decos |-> <<>>, key |-> 0, combined |-> <<>>]

ReaderInit(configs) ==
    /\ decorators \in configs
    /\ pollSt = PollIdle
    /\ consumer \in {"adapter", "callback"}
    /\ combined_by_key = <<>>
    /\ info_by_key = <<>>
    /\ colls = <<>>
    /\ elems_by_set = <<>>
    /\ meta_by_set = <<>>
    /\ parent_key_by_set = <<>>
    /\ elems_by_list = <<>>
    /\ meta_by_list = <<>>
    /\ parent_key_by_list = <<>>
    /\ gen_by_spec_id = <<>>
    /\ spec_by_topic_id = <<>>
    /\ parent_key_by_spec_id = <<>>
    /\ calls = <<>>
    /\ signalled = <<>>
    /\ buf = <<>>
    /\ heard = 0
    /\ leaf_combined_by_key = [c \in Children |-> <<>>]
    /\ leaf_info_by_key = [c \in Children |-> <<>>]
    /\ wire = [n \in {Root} \cup Children |-> <<>>]
    /\ nextKey = 1
    /\ arrivals = 0
    /\ childLog = <<>>
    /\ pollRaised = FALSE

\* A remote writer's sample, or the disposal of its instance, reaches the root's reader.
Deliver ==
    /\ arrivals < MaxArrivals
    /\ Len(wire[Root]) < MaxBatch
    /\ \E rec \in [data : RootSamples, info : {AliveInfo}]
                   \cup [data : {CHOOSE x \in RootSamples : TRUE}, info : DisposeInfos] :
          wire' = [wire EXCEPT ![Root] = Append(@, rec)]
    /\ arrivals' = arrivals + 1
    /\ UNCHANGED <<decorators, consumer, combined_by_key, info_by_key, colls,
                   elems_by_set, meta_by_set, parent_key_by_set,
                   elems_by_list, meta_by_list, parent_key_by_list,
                   gen_by_spec_id, spec_by_topic_id, parent_key_by_spec_id,
                   calls, signalled, buf, heard, leaf_combined_by_key, leaf_info_by_key,
                   nextKey, childLog, pollRaised>>
    /\ UNCHANGED otherThanReader

\* ReaderNode.poll_once of a node on the records its reader holds.
PollOnce(node) ==
    /\ wire[node] # <<>>
    /\ LET r == PollLoop(World, node, nextKey, wire[node])
       IN /\ SetWorld(r.w)
          /\ nextKey' = r.key
          /\ pollRaised' = r.raised
    /\ wire' = [wire EXCEPT ![node] = <<>>]
    /\ UNCHANGED <<decorators, consumer, arrivals>>
    /\ UNCHANGED otherThanReader

PollRoot == PollOnce(Root)

\* A child node calls the parent_notify attach_child gave it: with its assembled
\* sample, or with None for a disposal.
ChildReady ==
    /\ arrivals < MaxArrivals
    /\ \E i \in 1..Len(decorators) :
         \E child_name \in ChildNames(decorators[i]) :
           \E assembled \in {<<>>} \cup {<<CombinedSample(b, 0)>> : b \in ChildBases(decorators[i])} :
              SetWorld(child_ready(World, decorators[i], child_name, assembled))
    /\ arrivals' = arrivals + 1
    /\ UNCHANGED <<decorators, consumer, wire, nextKey, pollRaised>>
    /\ UNCHANGED otherThanReader

(* ------------------------------------------------------------------ *)
(* LargeListReader._ordered_chain, one loop iteration at a time        *)
(* ------------------------------------------------------------------ *)

ChainIds == 0..MaxChainId

\* The buffers of one listID: insertion-ordered, one element per elementID.
ChainBuffers ==
    {b \in UNION {[1..n -> [elementID : ChainIds, nextElementID : ChainIds \cup {None}]] :
                    n \in 0..(MaxChainId + 1)} :
        \A i, j \in 1..Len(b) : i # j => b[i].elementID # b[j].elementID}

ChainInit ==
    /\ chainElems \in ChainBuffers
    /\ chainStart \in ChainIds \cup {None}
    /\ chainSt = ChainStart(chainStart)
    /\ chainPc = "call"

ChainIdle ==
    /\ chainElems = <<>>
    /\ chainStart = None
    /\ chainSt = ChainStart(None)
    /\ chainPc = "idle"

\* The two early returns, or the entry into the while loop.
ChainEnter ==
    /\ chainPc = "call"
    /\ IF chainElems = <<>>
       THEN chainPc' = "done" /\ chainSt' = [chainSt EXCEPT !.ordered = <<>>]
       ELSE IF chainStart = None
       THEN chainPc' = "done" /\ chainSt' = [chainSt EXCEPT !.ordered = chainElems]
       ELSE chainPc' = "loop" /\ chainSt' = chainSt
    /\ UNCHANGED <<chainElems, chainStart>>
    /\ UNCHANGED otherThanChain

\* One iteration of the while loop.
ChainStep ==
    /\ chainPc = "loop"
    /\ ChainCond(chainElems, chainSt)
    /\ chainSt' = ChainIter(chainElems, chainSt)
    /\ UNCHANGED <<chainElems, chainStart, chainPc>>
    /\ UNCHANGED otherThanChain

\* The loop condition fails: return ordered.
ChainReturn ==
    /\ chainPc = "loop"
    /\ ~ChainCond(chainElems, chainSt)
    /\ chainPc' = "done"
    /\ UNCHANGED <<chainElems, chainStart, chainSt>>
    /\ UNCHANGED otherThanChain

ChainNext == ChainEnter \/ ChainStep \/ ChainReturn

(* ------------------------------------------------------------------ *)
(* Writer graph                                                        *)
(* ------------------------------------------------------------------ *)

\* The list nested under the specialization that has one, and its element topic.
LegsName == "legs"
LegsChild == "legs_element"
NestedTopic == "RouteObjectiveType"

\* A specialization type no child WriterNode is attached for.
UnknownType == "UMAA_SurveyObjectiveType"
SpecTypes == SpecTopics \cup {UnknownType}

\* umaa_type.__name__.replace("_", "::")
topic_from_type(type_name) ==
    IF type_name = UnknownType THEN "UMAA::SurveyObjectiveType" ELSE type_name

WriterNodes == {Root, SetChild, ListChild, LegsChild} \cup SpecTopics

\* WriterNode._decorators of each node, in registration order: sets, lists,
\* then "gen_spec" on the root; the nested list on the specialization child.
WriterDecorators(node) ==
    IF node = Root THEN <<SetName, ListName, GenRole>>
    ELSE IF node = NestedTopic THEN <<LegsName>>
    ELSE <<>>

ListMetaAttr(list_name) ==
    IF list_name = ListName THEN "waypointsListMetadata" ELSE "legsListMetadata"

ListChildOf(list_name) == IF list_name = ListName THEN ListChild ELSE LegsChild

\* What one publish call carries along: the events so far, the next GUID
\* generate_guid hands out, whether an exception is propagating, and which
\* writer.write of the call the transport fails (0: none).
Out(b, c) == [b |-> b, c |-> c]

Event(c, kind, node, sample) ==
    [c EXCEPT !.trace = Append(@, [kind |-> kind, node |-> node, sample |-> sample])]

Throw(c) == [c EXCEPT !.raised = TRUE]

\* CombinedBuilder(base=..., collections=...): the dataclass has no
\* collections_by_path attribute unless the application sets one.
CombinedBuilder(base, collections) ==
    [base |-> base, collections |-> collections, overlays_by_path |-> <<>>,
     collections_by_path |-> <<>>]

path_for_set_element(name, elem_id) == <<name, elem_id>>

path_for_list_element(name, elem_id) == <<name, elem_id>>

\* A child builder on elem_obj holding the slice of the parent's maps under
\* elem_path; no builder here holds anything under an element's path.
spawn_child(b, elem_path, elem_obj) ==
    [base |-> elem_obj, collections |-> <<>>, overlays_by_path |-> <<>>,
     collections_by_path |-> <<>>]

\* _resolve_items_with_attr_path: the bag at attr_path of collections_by_path
\* when the builder has one, else builder.collections[name] at the empty path.
resolve_items(b, name, attr_path) ==
    IF /\ b.collections_by_path # <<>>
       /\ attr_path \in DOMAIN b.collections_by_path[1]
       /\ name \in DOMAIN b.collections_by_path[1][attr_path]
    THEN b.collections_by_path[1][attr_path][name]
    ELSE IF attr_path = <<>> /\ name \in DOMAIN b.collections
    THEN b.collections[name]
    ELSE <<>>

\* An identifier allocated on every call.
NeedsNewId_always(current_id) == TRUE

\* "current_id is None or current_id == NIL_GUID"
NeedsNewId(current_id) == current_id = None \/ current_id = NIL_GUID

RECURSIVE WriterNode_publish(_, _, _)

\* An element published with the setID it came with.
LargeSetWriter_ensure_elem_set_id_kept(elem, set_id) == elem

\* setattr(elem, "setID", set_id)
LargeSetWriter_ensure_elem_set_id(elem, set_id) == Put(elem, "setID", set_id)

\* "for idx, e in enumerate(items)" of LargeSetWriter.publish
RECURSIVE LargeSetWriter_elements(_, _, _, _, _)
LargeSetWriter_elements(c, b, items, idx, set_id) ==
    IF idx > Len(items) THEN [items |-> items, c |-> c]
    ELSE LET e == LargeSetWriter_ensure_elem_set_id(items[idx], set_id)
             Published(r) ==
                 IF r.c.raised THEN [items |-> [items EXCEPT ![idx] = r.b.base], c |-> r.c]
                 ELSE LargeSetWriter_elements(r.c, b, [items EXCEPT ![idx] = r.b.base],
                                              idx + 1, set_id)
         IN Published(WriterNode_publish(
                c, SetChild, spawn_child(b, path_for_set_element(SetName, e.elementID), e)))

\* publish writing the update marker of an empty set too (last_id = None).
LargeSetWriter_publish_marks_empty(c, node, b) ==
    LET attr == "itemsSetMetadata"
    IN IF attr \notin DOMAIN b.base THEN Out(b, Throw(c))
       ELSE
       LET meta0 == b.base[attr]
           fresh == NeedsNewId(GetAttr(meta0, "setID"))
           meta1 == IF fresh THEN Put(meta0, "setID", c.guid) ELSE meta0
           c1 == IF fresh THEN [c EXCEPT !.guid = @ + 1] ELSE c
           items == resolve_items(b, SetName, <<>>)
           meta2 == Put(meta1, "size", Len(items))
           Published(r) ==
               LET last == r.items[Len(items)]
                   last_ts == GetAttr(last, "elementTimestamp")
                   meta3 == Put(meta2, "updateElementID", last.elementID)
                   meta4 == IF last_ts # None
                            THEN Put(meta3, "updateElementTimestamp", last_ts) ELSE meta3
                   b1 == [b EXCEPT !.collections[SetName] = r.items]
               IN IF r.c.raised THEN Out([b1 EXCEPT !.base[attr] = meta2], r.c)
                  ELSE Out([b1 EXCEPT !.base[attr] = meta4], r.c)
       IN IF items = <<>>
          THEN Out([b EXCEPT !.base[attr] = Put(meta2, "updateElementID", None)], c1)
          ELSE Published(LargeSetWriter_elements(c1, b, items, 1, meta1.setID))

LargeSetWriter_publish(c, node, b) ==
    LET attr == "itemsSetMetadata"
    IN IF attr \notin DOMAIN b.base THEN Out(b, Throw(c))
       ELSE
       LET meta0 == b.base[attr]
           fresh == NeedsNewId(GetAttr(meta0, "setID"))
           meta1 == IF fresh THEN Put(meta0, "setID", c.guid) ELSE meta0
           c1 == IF fresh THEN [c EXCEPT !.guid = @ + 1] ELSE c
           items == resolve_items(b, SetName, <<>>)
           meta2 == Put(meta1, "size", Len(items))
           Published(r) ==
               LET last == r.items[Len(items)]
                   last_ts == GetAttr(last, "elementTimestamp")
                   meta3 == Put(meta2, "updateElementID", last.elementID)
                   meta4 == IF last_ts # None
                            THEN Put(meta3, "updateElementTimestamp", last_ts) ELSE meta3
                   b1 == [b EXCEPT !.collections[SetName] = r.items]
               IN IF r.c.raised THEN Out([b1 EXCEPT !.base[attr] = meta2], r.c)
                  ELSE Out([b1 EXCEPT !.base[attr] = meta4], r.c)
       IN IF items = <<>> THEN Out([b EXCEPT !.base[attr] = meta2], c1)
          ELSE Published(LargeSetWriter_elements(c1, b, items, 1, meta1.setID))

\* The link loop leaving every nextElementID absent.
LargeListWriter_link_unlinked(items, list_id) ==
    [i \in 1..Len(items) |->
        Put(Put(items[i], "listID", list_id), "nextElementID", None)]

\* "for i, e in enumerate(items): setattr(e, 'listID', ...); setattr(e, 'nextElementID', nxt)"
LargeListWriter_link(items, list_id) ==
    [i \in 1..Len(items) |->
        Put(Put(items[i], "listID", list_id), "nextElementID",
            IF i + 1 <= Len(items) THEN items[i + 1].elementID ELSE None)]

\* "for e in items: ... child.publish(child_b)" of LargeListWriter.publish
RECURSIVE LargeListWriter_elements(_, _, _, _, _)
LargeListWriter_elements(c, b, items, idx, list_name) ==
    IF idx > Len(items) THEN [items |-> items, c |-> c]
    ELSE LET e == items[idx]
             Published(r) ==
                 IF r.c.raised THEN [items |-> [items EXCEPT ![idx] = r.b.base], c |-> r.c]
                 ELSE LargeListWriter_elements(r.c, b, [items EXCEPT ![idx] = r.b.base],
                                               idx + 1, list_name)
         IN Published(WriterNode_publish(
                c, ListChildOf(list_name),
                spawn_child(b, path_for_list_element(list_name, e.elementID), e)))

LargeListWriter_publish(c, node, b, list_name) ==
    LET attr == ListMetaAttr(list_name)
    IN IF attr \notin DOMAIN b.base THEN Out(b, Throw(c))
       ELSE
       LET meta0 == b.base[attr]
           fresh == NeedsNewId(GetAttr(meta0, "listID"))
           meta1 == IF fresh THEN Put(meta0, "listID", c.guid) ELSE meta0
           c1 == IF fresh THEN [c EXCEPT !.guid = @ + 1] ELSE c
           items == resolve_items(b, list_name, <<>>)
           meta2 == Put(meta1, "size", Len(items))
           Published(r) ==
               LET last == r.items[Len(items)]
                   last_ts == GetAttr(last, "elementTimestamp")
                   meta3 == Put(Put(meta2, "startingElementID", r.items[1].elementID),
                                "updateElementID", last.elementID)
                   meta4 == IF last_ts # None
                            THEN Put(meta3, "updateElementTimestamp", last_ts) ELSE meta3
                   b1 == [b EXCEPT !.collections[list_name] = r.items]
               IN IF r.c.raised THEN Out([b1 EXCEPT !.base[attr] = meta2], r.c)
                  ELSE Out([b1 EXCEPT !.base[attr] = meta4], r.c)
       IN IF items = <<>> THEN Out([b EXCEPT !.base[attr] = meta2], c1)
          ELSE Published(LargeListWriter_elements(
                   c1, b, LargeListWriter_link(items, meta1.listID), 1, list_name))

\* getattr(spec, "specializationTopic", None) or topic_from_type(type(spec))
GenSpecWriter_spec_topic_name(spec) ==
    IF "specializationTopic" \in DOMAIN spec /\ spec.specializationTopic # ""
    THEN spec.specializationTopic ELSE topic_from_type(spec.type)

GenSpecWriter_bind_generalization(gen, topic, spec_id, spec_ts) ==
    LET g == Put(Put(gen, "specializationTopic", topic), "specializationID", spec_id)
    IN IF spec_ts # None THEN Put(g, "specializationTimestamp", spec_ts) ELSE g

\* A publish that returns silently when no child is attached for the topic.
GenSpecWriter_no_child_skips(c, b) == Out(b, c)

\* "if child is None: raise RuntimeError(...)"
GenSpecWriter_no_child(c, b) == Out(b, Throw(c))

\* GenSpecWriter(attr_path=("objective",)).publish
GenSpecWriter_publish(c, node, b) ==
    IF b.collections_by_path = <<>> THEN Out(b, Throw(c))
    ELSE IF AttrPath \notin DOMAIN b.overlays_by_path THEN Out(b, c)
    ELSE
    LET spec == b.overlays_by_path[AttrPath]
        child_collections == IF AttrPath \in DOMAIN b.collections_by_path[1]
                             THEN b.collections_by_path[1][AttrPath] ELSE <<>>
        topic == GenSpecWriter_spec_topic_name(spec)
        fresh == spec.specializationReferenceID = NIL_GUID
        spec1 == IF fresh THEN Put(spec, "specializationReferenceID", c.guid) ELSE spec
        c1 == IF fresh THEN [c EXCEPT !.guid = @ + 1] ELSE c
        Published(r) ==
            LET b1 == [b EXCEPT !.overlays_by_path[AttrPath] = r.b.base,
                                !.collections_by_path =
                                    IF AttrPath \in DOMAIN @[1]
                                    THEN <<Put(@[1], AttrPath, r.b.collections)>> ELSE @]
                gen == GenSpecWriter_bind_generalization(
                           b.base.objective, topic, r.b.base.specializationReferenceID,
                           r.b.base.specializationReferenceTimestamp)
            IN IF r.c.raised THEN Out(b1, r.c)
               ELSE Out([b1 EXCEPT !.base.objective = gen], r.c)
    IN IF topic \notin SpecTopics THEN GenSpecWriter_no_child(c, b)
       ELSE Published(WriterNode_publish(c1, topic, CombinedBuilder(spec1, child_collections)))

WriterDecorator_publish(role, c, node, b) ==
    IF role = SetName THEN LargeSetWriter_publish(c, node, b)
    ELSE IF role = GenRole THEN GenSpecWriter_publish(c, node, b)
    ELSE LargeListWriter_publish(c, node, b, role)

\* "for deco in self._decorators.values(): deco.publish(self, builder)"
RECURSIVE WriterNode_decorators(_, _, _, _)

\* A decorator loop that swallows a decorator's exception and goes on.
WriterNode_decorators_swallowing(c, node, b, decos) ==
    IF decos = <<>> THEN Out(b, c)
    ELSE LET Published(r) ==
                 WriterNode_decorators([r.c EXCEPT !.raised = FALSE], node, r.b, Tail(decos))
         IN Published(WriterDecorator_publish(Head(decos), c, node, b))

WriterNode_decorators(c, node, b, decos) ==
    IF decos = <<>> THEN Out(b, c)
    ELSE LET Published(r) ==
                 IF r.c.raised THEN r
                 ELSE WriterNode_decorators(r.c, node, r.b, Tail(decos))
         IN Published(WriterDecorator_publish(Head(decos), c, node, b))

\* A node that writes its base whatever write_base says.
WritesBase_always(node) == TRUE

\* "if self._write_base:"
WritesBase(node) == writeBase[node]

\* self.writer.write(sample) raises: this is the write the transport fails.
DataWriter_write_raises(c) ==
    c.fail = 1 + Cardinality({k \in 1..Len(c.trace) : c.trace[k].kind \in {"write", "fail"}})

\* WriterNode.publish; "begin" and "end" mark the call and its normal return,
\* "fail" a writer.write that raised.
WriterNode_publish(c, node, b) ==
    LET Decorated(r) ==
            IF r.c.raised THEN r
            ELSE IF WritesBase(node)
            THEN IF DataWriter_write_raises(r.c)
                 THEN Out(r.b, Throw(Event(r.c, "fail", node, <<r.b.base>>)))
                 ELSE Out(r.b, Event(Event(r.c, "write", node, <<r.b.base>>),
                                     "end", node, <<>>))
            ELSE Out(r.b, Event(r.c, "end", node, <<>>))
    IN Decorated(WriterNode_decorators(Event(c, "begin", node, <<>>), node, b,
                                       WriterDecorators(node)))

(* ------------------------------------------------------------------ *)
(* What an application can hand to the writer graph                    *)
(* ------------------------------------------------------------------ *)

\* Insertion-ordered collections of at most n elements, one per elementID.
DistinctSeqs(S, n) ==
    {q \in UNION {[1..k -> S] : k \in 0..n} :
        \A i, j \in 1..Len(q) : i # j => q[i].elementID # q[j].elementID}

WriterSetItems ==
    DistinctSeqs([elementID : 1..MaxItems, elementTimestamp : {1}, setID : {NIL_GUID}],
                 MaxItems)

WriterListItems ==
    DistinctSeqs([elementID : 1..MaxItems, elementTimestamp : {1}, listID : {NIL_GUID},
                  nextElementID : {None}], MaxItems)

WriterLegItems ==
    DistinctSeqs([elementID : {1}, elementTimestamp : {1}, listID : {NIL_GUID},
                  nextElementID : {None}], 1)

FreshListMetadata ==
    [listID |-> NIL_GUID, startingElementID |-> None, updateElementID |-> NIL_GUID,
     updateElementTimestamp |-> None, size |-> 0]

WriterBases ==
    [itemsSetMetadata : [setID : GUIDS \cup {None}, updateElementID : {NIL_GUID},
                         updateElementTimestamp : {None}, size : {0}],
     waypointsListMetadata : [listID : GUIDS, startingElementID : {None},
                              updateElementID : {NIL_GUID},
                              updateElementTimestamp : {None}, size : {0}],
     objective : {[specializationTopic |-> "", specializationID |-> NIL_GUID,
                   specializationTimestamp |-> None]}]

\* Specialization objects; the route type carries the metadata of its legs list.
WriterSpecs ==
    {IF x.type = NestedTopic THEN Put(x, "legsListMetadata", FreshListMetadata) ELSE x :
        x \in [type : SpecTypes, specializationReferenceID : GUIDS,
               specializationReferenceTimestamp : {1}, speed : {3}]}

Builders ==
    [base : WriterBases,
     collections : [items : WriterSetItems, waypoints : WriterListItems],
     overlays_by_path : {<<>>} \cup {[p \in {AttrPath} |-> x] : x \in WriterSpecs},
     collections_by_path :
         {<<>>} \cup {<<[p \in {AttrPath} |-> [legs |-> l]]>> : l \in WriterLegItems}]

WriterInit ==
    /\ builder \in Builders
    /\ writeBase \in {[n \in WriterNodes |-> IF n = Root THEN r
                                             ELSE IF n = NestedTopic THEN t ELSE TRUE] :
                        r \in BOOLEAN, t \in BOOLEAN}
    /\ wcalls = <<>>
    /\ nextGuid = MaxGuid + 1
    /\ mutated = FALSE

WriterIdle ==
    /\ builder = <<>>
    /\ writeBase = [n \in WriterNodes |-> TRUE]
    /\ wcalls = <<>>
    /\ nextGuid = MaxGuid + 1
    /\ mutated = FALSE

\* The data writers hand each written sample to the reader of the same topic.
RECURSIVE Transport(_, _)
Transport(held, events) ==
    IF events = <<>> THEN held
    ELSE LET e == Head(events)
         IN Transport(IF e.kind = "write" /\ e.node \in DOMAIN held
                      THEN [held EXCEPT ![e.node] =
                               Append(@, [data |-> e.sample[1], info |-> AliveInfo])]
                      ELSE held,
                      Tail(events))

\* TopLevelWriter.write(builder): root.publish(builder).
PublishCall(deliver, fail) ==
    /\ Len(wcalls) < MaxPublish
    /\ LET Done(r) ==
              /\ builder' = r.b
              /\ wcalls' = Append(wcalls, [events |-> r.c.trace,
                                           allocated |-> r.c.guid - nextGuid,
                                           raised |-> r.c.raised,
                                           mutated |-> mutated])
              /\ nextGuid' = r.c.guid
              /\ wire' = IF deliver THEN Transport(wire, r.c.trace) ELSE wire
       IN Done(WriterNode_publish([trace |-> <<>>, guid |-> nextGuid, raised |-> FALSE,
                                   fail |-> fail], Root, builder))
    /\ mutated' = FALSE
    /\ UNCHANGED writeBase
    /\ UNCHANGED otherThanWriter

Publish == PublishCall(FALSE, 0)

\* publish on a transport that fails one of the call's writes.
PublishFailing == \E fail \in 1..MaxFail : PublishCall(FALSE, fail)

\* The application changes the builder between two publish calls.
Mutate ==
    /\ wcalls # <<>>
    /\ Len(wcalls) < MaxPublish
    /\ ~mutated
    /\ \/ builder' = [builder EXCEPT !.base.itemsSetMetadata.setID = NIL_GUID]
       \/ /\ builder.collections.waypoints # <<>>
          /\ builder' = [builder EXCEPT !.collections.waypoints = Tail(@)]
       \/ /\ builder.collections.items # <<>>
          /\ builder' = [builder EXCEPT !.collections.items = <<>>]
       \/ /\ AttrPath \in DOMAIN builder.overlays_by_path
          /\ builder.overlays_by_path[AttrPath].type = UnknownType
          /\ \E x \in WriterSpecs :
                /\ x.type \in SpecTopics
                /\ x.specializationReferenceID =
                       builder.overlays_by_path[AttrPath].specializationReferenceID
                /\ builder' = [builder EXCEPT !.overlays_by_path[AttrPath] = x]
    /\ mutated' = TRUE
    /\ UNCHANGED <<writeBase, wcalls, nextGuid, wire>>
    /\ UNCHANGED otherThanWriter

WriterNext == Publish \/ Mutate

FaultNext == Publish \/ PublishFailing \/ Mutate

\* publish on a transport the reader graph listens to, once the previous
\* samples have been drained.
PublishAndDeliver ==
    /\ \A n \in DOMAIN wire : wire[n] = <<>>
    /\ PublishCall(TRUE, 0)

\* The reader graph drains a topic; the root's topic after the children's.
Drain ==
    \E n \in {Root} \cup Children :
        /\ n = Root => \A c \in Children : wire[c] = <<>>
        /\ PollOnce(n)

RoundTripNext == PublishAndDeliver \/ Drain

RoundTripInit ==
    /\ ReaderInit({<<SetName, ListName, GenRole>>})
    /\ WriterInit
    /\ writeBase = [n \in WriterNodes |-> TRUE]
    /\ builder.collections_by_path # <<>>
    /\ builder.collections_by_path[1][AttrPath].legs = <<>>
    /\ AttrPath \in DOMAIN builder.overlays_by_path
           => builder.overlays_by_path[AttrPath].type \in SpecTopics

(* ------------------------------------------------------------------ *)
(* OverlayView                                                         *)
(* ------------------------------------------------------------------ *)

\* Attribute names looked up, and the paths an overlay can be registered at.
ViewNames == {"objective", "speed", "items"}
ViewPaths == {<<"objective">>, <<"speed">>, <<"objective", "speed">>}

\* An object: where it came from, the attributes it has, and the attributes
\* of the objects its attributes hold.
Obj(tag, has, sub) == [tag |-> tag, has |-> has, sub |-> sub]

\* hasattr(obj, name) and getattr(obj, name) on an optional object
\* (<<>> is None, which has none of these attributes).
HasAttr(obj, name) == obj # <<>> /\ name \in obj[1].has

GetAttrObj(obj, name) == Obj(Append(obj[1].tag, name), obj[1].sub, {})

OverlayView(base, overlay, collections, overlays_by_path, path) ==
    [base |-> base, overlay |-> overlay, collections |-> collections,
     overlays_by_path |-> overlays_by_path, path |-> path]

Returns(value) == [kind |-> "value", view |-> <<>>, value |-> <<value>>]
ReturnsView(view) == [kind |-> "view", view |-> <<view>>, value |-> <<>>]
AttributeError == [kind |-> "AttributeError", view |-> <<>>, value |-> <<>>]

\* __getattr__ asking the base before the overlay.
OverlayView_getattr_base_first(v, name) ==
    LET sub_path == Append(v.path, name)
    IN IF sub_path \in DOMAIN v.overlays_by_path
       THEN ReturnsView(OverlayView(
                IF HasAttr(v.base, name) THEN <<GetAttrObj(v.base, name)>> ELSE <<>>,
                <<v.overlays_by_path[sub_path]>>, v.collections, v.overlays_by_path, sub_path))
       ELSE IF HasAttr(v.base, name) THEN Returns(GetAttrObj(v.base, name))
       ELSE IF HasAttr(v.overlay, name) THEN Returns(GetAttrObj(v.overlay, name))
       ELSE IF name \in DOMAIN v.collections THEN Returns(v.collections[name])
       ELSE AttributeError

\* OverlayView.__getattr__
OverlayView_getattr(v, name) ==
    LET sub_path == Append(v.path, name)
    IN IF sub_path \in DOMAIN v.overlays_by_path
       THEN ReturnsView(OverlayView(
                IF HasAttr(v.base, name) THEN <<GetAttrObj(v.base, name)>> ELSE <<>>,
                <<v.overlays_by_path[sub_path]>>, v.collections, v.overlays_by_path, sub_path))
       ELSE IF HasAttr(v.overlay, name) THEN Returns(GetAttrObj(v.overlay, name))
       ELSE IF HasAttr(v.base, name) THEN Returns(GetAttrObj(v.base, name))
       ELSE IF name \in DOMAIN v.collections THEN Returns(v.collections[name])
       ELSE AttributeError

\* The objects a view is built over.
ViewObjs(tag) == {Obj(<<tag>>, has, sub) : has \in SUBSET ViewNames, sub \in {{}, {"speed"}}}

ViewCollections ==
    {[n \in C |-> Obj(<<"collections", n>>, {}, {})] : C \in SUBSET {"items", "speed"}}

ViewOverlays ==
    {[p \in P |-> Obj(<<"overlays_by_path">> \o p, {"speed"}, {})] : P \in SUBSET ViewPaths}

\* CombinedSample.view / CombinedBuilder.view: a view at the empty path.
ViewInit ==
    /\ viewObj \in {OverlayView(b, o, c, m, <<>>) :
                      b \in {<<>>} \cup {<<x>> : x \in ViewObjs("base")},
                      o \in {<<>>} \cup {<<x>> : x \in ViewObjs("overlay")},
                      c \in ViewCollections, m \in ViewOverlays}
    /\ viewName \in ViewNames
    /\ viewResult = AttributeError
    /\ viewPc = "call"

ViewIdle ==
    /\ viewObj = OverlayView(<<>>, <<>>, <<>>, <<>>, <<>>)
    /\ viewName = ""
    /\ viewResult = AttributeError
    /\ viewPc = "idle"

\* view.<name>
ViewGetattr ==
    /\ viewPc = "call"
    /\ viewResult' = OverlayView_getattr(viewObj, viewName)
    /\ viewPc' = "done"
    /\ UNCHANGED <<viewObj, viewName>>
    /\ UNCHANGED otherThanView

\* The lookup returned a scoped view: the caller looks a name up on it.
ViewDescend ==
    /\ viewPc = "done"
    /\ viewResult.kind = "view"
    /\ viewObj' = viewResult.view[1]
    /\ viewName' \in ViewNames
    /\ viewPc' = "call"
    /\ UNCHANGED viewResult
    /\ UNCHANGED otherThanView

ViewNext == ViewGetattr \/ ViewDescend

(* ------------------------------------------------------------------ *)
(* poll_once on one thread, statement by statement, while the child    *)
(* readers' threads call _child_ready                                  *)
(* ------------------------------------------------------------------ *)

\* "data, infos = self._read_with_infos()": the thread takes what the reader holds.
ThreadTake ==
    /\ pollSt.pc = "idle"
    /\ wire[Root] # <<>>
    /\ pollSt' = [PollIdle EXCEPT !.pc = "record", !.recs = wire[Root]]
    /\ wire' = [wire EXCEPT ![Root] = <<>>]
    /\ UNCHANGED <<decorators, consumer, combined_by_key, info_by_key, colls,
                   elems_by_set, meta_by_set, parent_key_by_set,
                   elems_by_list, meta_by_list, parent_key_by_list,
                   gen_by_spec_id, spec_by_topic_id, parent_key_by_spec_id,
                   calls, signalled, buf, heard, leaf_combined_by_key, leaf_info_by_key,
                   nextKey, arrivals, childLog, pollRaised>>
    /\ UNCHANGED <<chainVars, writerVars, viewVars, procVars>>

\* The head of "for sample, info in zip(data, infos)": a disposal is notified;
\* a valid sample gets its key, its info and its CombinedSample (lines 261-269).
ThreadRecord ==
    /\ pollSt.pc = "record"
    /\ IF pollSt.recs = <<>>
       THEN /\ pollSt' = PollIdle
            /\ pollRaised' = FALSE
            /\ UNCHANGED <<combined_by_key, info_by_key, colls,
                           elems_by_set, meta_by_set, parent_key_by_set,
                           elems_by_list, meta_by_list, parent_key_by_list,
                           gen_by_spec_id, spec_by_topic_id, parent_key_by_spec_id,
                           calls, signalled, buf, heard, leaf_combined_by_key,
                           leaf_info_by_key, nextKey, childLog>>
       ELSE LET rec == Head(pollSt.recs)
                combined == CombinedSample(rec.data, nextKey)
            IN /\ nextKey' = nextKey + 1
               /\ IF ~rec.info.valid
                  THEN LET r == PollRecord(World, Root, nextKey, rec)
                       IN /\ SetWorld(r.w)
                          /\ pollRaised' = r.raised
                          /\ pollSt' = IF r.raised THEN PollIdle
                                       ELSE [pollSt EXCEPT !.recs = Tail(@)]
                  ELSE /\ SetWorld([World EXCEPT !.ibk = Put(@, nextKey, rec.info),
                                                 !.cbk = Put(@, nextKey, combined),
                                                 !.colls = Put(@, nextKey, <<>>)])
                       /\ pollRaised' = FALSE
                       /\ pollSt' = [pollSt EXCEPT !.pc = "decorators",
                                                   !.decos = decorators,
                                                   !.key = nextKey,
                                                   !.combined = <<combined>>]
    /\ UNCHANGED <<decorators, consumer, wire, arrivals>>
    /\ UNCHANGED <<chainVars, writerVars, viewVars, procVars>>

\* One iteration of "for deco in list(self._decorators.values())" (lines 274-283).
ThreadDecorator ==
    /\ pollSt.pc = "decorators"
    /\ IF pollSt.decos = <<>>
       THEN /\ pollSt' = [pollSt EXCEPT !.pc = "record", !.recs = Tail(@),
                                        !.combined = <<>>, !.key = 0]
            /\ UNCHANGED <<combined_by_key, info_by_key, colls,
                           elems_by_set, meta_by_set, parent_key_by_set,
                           elems_by_list, meta_by_list, parent_key_by_list,
                           gen_by_spec_id, spec_by_topic_id, parent_key_by_spec_id,
                           calls, signalled, buf, heard, leaf_combined_by_key,
                           leaf_info_by_key, childLog>>
       ELSE /\ SetWorld(RunDecorators(World, <<Head(pollSt.decos)>>, pollSt.key,
                                      pollSt.combined[1], Head(pollSt.recs).data))
            /\ pollSt' = [pollSt EXCEPT !.decos = Tail(@)]
    /\ UNCHANGED <<decorators, consumer, wire, nextKey, arrivals, pollRaised>>
    /\ UNCHANGED <<chainVars, writerVars, viewVars, procVars>>

\* ReaderNode takes no lock: the child readers' threads run _child_ready
\* wherever the root's thread is in poll_once.
RaceNext == Deliver \/ ThreadTake \/ ThreadRecord \/ ThreadDecorator \/ ChildReady

(* ------------------------------------------------------------------ *)
(* UmaaCommand (util/umaa_command.py)                                  *)
(* ------------------------------------------------------------------ *)

\* What the writers of a command have written and what its controller has
\* called, in the order it happened, each with where execute was at the time.
Entry(c, kind, status, reason, message) ==
    [kind |-> kind, status |-> status, reason |-> reason, message |-> message, at |-> c.pc]

\* _send_ack: one acknowledgement written on the ack writer.
send_ack(c) == [c EXCEPT !.log = Append(@, Entry(c, "ack", "", "", ""))]

\* _send_status(status, reason, message): one status written on the status writer.
send_status(c, status, reason, message) ==
    [c EXCEPT !.log = Append(@, Entry(c, "status", status, reason, message))]

\* self._condition.notify_all(): the thread blocked in wait, if any, is woken.
notify_all(c) == [c EXCEPT !.notified = (c.pc = "waiting")]

\* update(new_command), under the condition's lock.
UmaaCommand_update(c) ==
    notify_all([c EXCEPT !.updated = TRUE, !.updates = @ + 1,
                         !.log = Append(@, Entry(c, "update", "", "", ""))])

\* A cancel that sets the flag and wakes nobody.
UmaaCommand_cancel_silent(c) ==
    [c EXCEPT !.cancelled = TRUE, !.log = Append(@, Entry(c, "cancel", "", "", ""))]

\* cancel(), under the condition's lock.
UmaaCommand_cancel(c) ==
    notify_all([c EXCEPT !.cancelled = TRUE,
                         !.log = Append(@, Entry(c, "cancel", "", "", ""))])

\* wait_for returning (completed, updated) to on_executing.
WaitReturn(c, completed, updated) ==
    [c EXCEPT !.pc = "on_executing",
              !.result = <<[completed |-> completed, updated |-> updated]>>]

\* One pass of wait_for's "while True", under the condition's lock: a return,
\* or self._condition.wait, which releases the lock and blocks.
wait_for(c) ==
    IF c.cancelled THEN WaitReturn(c, FALSE, FALSE)
    ELSE IF c.updated THEN WaitReturn(c, FALSE, TRUE)
    ELSE IF c.predicate THEN WaitReturn(c, TRUE, FALSE)
    ELSE IF c.end # None /\ c.end - c.now < 0 THEN WaitReturn(c, FALSE, FALSE)
    ELSE [c EXCEPT !.pc = "waiting", !.notified = FALSE]

\* The checks of core/command_provider.py: a cancelled command breaks out of
\* the loop without a status.
AfterHook_silent(c, next) ==
    IF c.cancelled THEN [c EXCEPT !.pc = "terminal"]
    ELSE IF c.updated THEN [c EXCEPT !.pc = "issued"]
    ELSE [c EXCEPT !.pc = next]

\* "if self._cancelled: ... break / if self._updated: continue" after a hook.
AfterHook(c, next) ==
    IF c.cancelled
    THEN [send_status(c, "CANCELED", "CANCELED", "canceled") EXCEPT !.pc = "terminal"]
    ELSE IF c.updated THEN [c EXCEPT !.pc = "issued"]
    ELSE [c EXCEPT !.pc = next]

\* No hook of the command raises.
NoRaise == [hook |-> "none", exception |-> "none", handler |-> FALSE]

\* Which hook of a command raises, with which exception, and whether the hook
\* the except clause calls (on_failed, on_error) raises as well.
Raises ==
    {NoRaise} \cup [hook : {"on_commanded", "on_executing", "on_complete"},
                    exception : {"UmaaCommandException", "Exception"},
                    handler : BOOLEAN]

\* A hook called inside the try of execute: it returns, or raises and control
\* passes to the except clauses.
hook(c, name, returned) ==
    IF c.raises.hook = name
    THEN [c EXCEPT !.pc = "except",
                   !.log = Append(@, Entry(c, "raise", c.raises.exception, "", name))]
    ELSE returned

\* An except clause that swallows the exception without a status.
except_clause_silent(c) == [c EXCEPT !.pc = "terminal"]

\* "except UmaaCommandException as uce: FAILED with uce.reason; self.on_failed(uce)"
\* and "except Exception as e: FAILED, SERVICE_FAILED; self.on_error(e)". An
\* exception raised by on_failed or on_error leaves execute after the finally.
except_clause(c) ==
    LET failed == IF c.raises.exception = "UmaaCommandException"
                  THEN send_status(c, "FAILED", "uce.reason", "uce.message")
                  ELSE send_status(c, "FAILED", "SERVICE_FAILED", "provider caught")
    IN [failed EXCEPT !.pc = "terminal", !.propagates = c.raises.handler]

\* Commands whose on_executing is "self.wait_for(predicate, timeout)".
CommandInit ==
    cmd \in [pc : {"send_ack"}, cancelled : {FALSE}, updated : {FALSE}, updates : {0},
             notified : {FALSE}, log : {<<>>}, result : {<<>>},
             predicate : BOOLEAN, timeout : {None, 1}, end : {None}, now : {0},
             raises : {NoRaise}, propagates : {FALSE}]

\* Commands whose hooks can raise; on_executing waits without a deadline.
LifecycleInit ==
    cmd \in [pc : {"send_ack"}, cancelled : {FALSE}, updated : {FALSE}, updates : {0},
             notified : {FALSE}, log : {<<>>}, result : {<<>>},
             predicate : BOOLEAN, timeout : {None}, end : {None}, now : {0},
             raises : Raises, propagates : {FALSE}]

\* execute: "self._send_ack()"
Execute_send_ack ==
    /\ cmd # <<>> /\ cmd.pc = "send_ack"
    /\ cmd' = [send_ack(cmd) EXCEPT !.pc = "issued"]
    /\ UNCHANGED otherThanCommand

\* execute: the "with self._condition" block at the head of the loop.
Execute_issued ==
    /\ cmd # <<>> /\ cmd.pc = "issued"
    /\ cmd' = [(IF cmd.updated THEN send_status(cmd, "ISSUED", "UPDATED", "updated")
                ELSE send_status(cmd, "ISSUED", "SUCCEEDED", "received"))
               EXCEPT !.updated = FALSE, !.pc = "commanded"]
    /\ UNCHANGED otherThanCommand

\* execute: the COMMANDED status and on_commanded, which does nothing.
Execute_commanded ==
    /\ cmd # <<>> /\ cmd.pc = "commanded"
    /\ cmd' = [send_status(cmd, "COMMANDED", "SUCCEEDED", "processing")
               EXCEPT !.pc = "on_commanded"]
    /\ UNCHANGED otherThanCommand

\* execute: the checks after on_commanded.
Execute_after_commanded ==
    /\ cmd # <<>> /\ cmd.pc = "on_commanded"
    /\ cmd' = hook(cmd, "on_commanded", AfterHook(cmd, "executing"))
    /\ UNCHANGED otherThanCommand

\* execute: the EXECUTING status, then on_executing enters wait_for, which
\* computes its deadline.
Execute_executing ==
    /\ cmd # <<>> /\ cmd.pc = "executing"
    /\ cmd' = [send_status(cmd, "EXECUTING", "SUCCEEDED", "executing")
               EXCEPT !.pc = "wait_for",
                      !.end = IF cmd.timeout = None THEN None ELSE cmd.now + cmd.timeout]
    /\ UNCHANGED otherThanCommand

\* wait_for's loop, entered by on_executing or resumed after wait returned.
WaitFor ==
    /\ cmd # <<>> /\ cmd.pc \in {"wait_for", "woken"}
    /\ cmd' = wait_for(cmd)
    /\ UNCHANGED otherThanCommand

\* self._condition.wait returns: after a notify_all, or when its timeout ran out.
WaitWake ==
    /\ cmd # <<>> /\ cmd.pc = "waiting"
    /\ cmd.notified \/ (cmd.end # None /\ cmd.now >= cmd.end)
    /\ cmd' = [cmd EXCEPT !.pc = "woken", !.notified = FALSE]
    /\ UNCHANGED otherThanCommand

\* execute: on_executing has returned; the checks after it.
Execute_after_executing ==
    /\ cmd # <<>> /\ cmd.pc = "on_executing"
    /\ cmd' = hook(cmd, "on_executing", AfterHook(cmd, "complete"))
    /\ UNCHANGED otherThanCommand

\* execute: the second EXECUTING status, on_complete, break.
Execute_complete ==
    /\ cmd # <<>> /\ cmd.pc = "complete"
    /\ LET sent == send_status(cmd, "EXECUTING", "SUCCEEDED", "completed")
       IN cmd' = hook(sent, "on_complete", [sent EXCEPT !.pc = "terminal"])
    /\ UNCHANGED otherThanCommand

\* execute: the except clause that matches the exception a hook raised.
Execute_except ==
    /\ cmd # <<>> /\ cmd.pc = "except"
    /\ cmd' = except_clause(cmd)
    /\ UNCHANGED otherThanCommand

\* execute: "finally: self.on_terminal()"
Execute_terminal ==
    /\ cmd # <<>> /\ cmd.pc = "terminal"
    /\ cmd' = [cmd EXCEPT !.pc = "done",
                          !.log = Append(@, Entry(cmd, "on_terminal", "", "", ""))]
    /\ UNCHANGED otherThanCommand

\* The thread a worker runs execute on, for a command none of whose hooks raises.
Execute ==
    \/ Execute_send_ack \/ Execute_issued \/ Execute_commanded \/ Execute_after_commanded
    \/ Execute_executing \/ WaitFor \/ WaitWake \/ Execute_after_executing
    \/ Execute_complete \/ Execute_terminal

\* The provider's thread calls update on a command that has not finished.
Update ==
    /\ cmd # <<>> /\ cmd.pc # "done"
    /\ cmd.updates < MaxUpdates
    /\ cmd' = UmaaCommand_update(cmd)
    /\ UNCHANGED otherThanCommand

\* The provider's thread calls cancel on a command that has not finished.
Cancel ==
    /\ cmd # <<>> /\ cmd.pc # "done"
    /\ ~cmd.cancelled
    /\ cmd' = UmaaCommand_cancel(cmd)
    /\ UNCHANGED otherThanCommand

\* time.monotonic() advances.
CommandTick ==
    /\ cmd # <<>> /\ cmd.pc # "done"
    /\ cmd.now < MaxClock
    /\ cmd' = [cmd EXCEPT !.now = @ + 1]
    /\ UNCHANGED otherThanCommand

CommandNext == Execute \/ Update \/ Cancel \/ CommandTick

\* A command that waits without a deadline: the clock plays no part.
LifecycleNext == Execute \/ Execute_except \/ Update \/ Cancel

(* ------------------------------------------------------------------ *)
(* EventProcessor (util/event_processor.py)                            *)
(* ------------------------------------------------------------------ *)

\* Priority levels; _EXIT is the internal worker-exit signal.
HIGH == 0
MEDIUM == 1
LOW == 2
EXIT == 3

Workers == 1..MaxWorkers

\* Who holds a lock: nobody, a worker, the scheduler thread or the caller of stop.
Free == 0
SchedulerThread == MaxWorkers + 1
StopThread == MaxWorkers + 2

\* What a submitted callable or Command.execute does when it is called.
Fns == {[kind |-> "callable", value |-> 42, raises |-> FALSE],
        [kind |-> "command", value |-> 7, raises |-> FALSE],
        [kind |-> "callable", value |-> 0, raises |-> TRUE]}

\* Future(): pending, no result.
Future == [state |-> "PENDING", result |-> None]

\* Task(priority, sequence, enqueued_time, task_id, fn, future); `future` is the
\* task_id for the future submit registered, None for a future nobody else holds.
Task(priority, sequence, task_id, fn, future) ==
    [priority |-> priority, sequence |-> sequence, task_id |-> task_id, fn |-> fn,
     future |-> future]

\* A plain FIFO queue: the oldest Task whatever its priority.
HeapTop_fifo(queue) == CHOOSE t \in queue : \A u \in queue : t.sequence <= u.sequence

\* heapq's smallest Task: dataclass order compares (priority, sequence).
HeapTop(queue) ==
    CHOOSE t \in queue :
        \A u \in queue : \/ t.priority < u.priority
                         \/ t.priority = u.priority /\ t.sequence <= u.sequence

\* heapq's smallest RecurringTask: order compares next_run_time alone.
HeapTopRecurring(queue) ==
    CHOOSE t \in queue : \A u \in queue : t.next_run_time <= u.next_run_time

\* A notify that reaches no waiting thread.
notify_lost(e) == {e}

\* self._queue_cond.notify(): one of the workers blocked in wait, if any, is woken.
notify(e) ==
    LET waiting == {w \in Workers : e.wpc[w] = "waiting" /\ ~e.woken[w]}
    IN IF waiting = {} THEN {e}
       ELSE {[e EXCEPT !.woken[w] = TRUE] : w \in waiting}

\* self._queue_cond.notify_all()
notify_all_workers(e) ==
    [e EXCEPT !.woken = [w \in Workers |-> e.wpc[w] = "waiting"]]

\* A started processor: _running set, every worker and the scheduler at the
\* top of its loop, nothing queued.
ProcessorInit ==
    ep = [running |-> TRUE, ss |-> Free, q |-> Free, r |-> Free,
          task_queue |-> {}, recurring_queue |-> {}, sequence |-> 0,
          tasks |-> <<>>, fns |-> <<>>, futures |-> <<>>, cancelled |-> {},
          wpc |-> [w \in Workers |-> "top"], wtask |-> [w \in Workers |-> <<>>],
          woken |-> [w \in Workers |-> FALSE],
          spc |-> "loop", srt |-> <<>>, now |-> 0,
          stpc |-> "idle", wait |-> FALSE, cancelling |-> 0,
          subpc |-> "idle", recpc |-> "idle", rejected |-> 0,
          started |-> <<>>, pushed |-> 0, requeued |-> 0, clock |-> 0]

\* A check of running() that lets every caller through.
running_check_skipped(e, pc) == [e EXCEPT ![pc] = "push"]

\* "if not self.running(): raise RuntimeError(...)" at the top of submit and
\* submit_recurring; `rejected` counts the calls that raised.
running_check(e, pc) ==
    IF e.running THEN [e EXCEPT ![pc] = "push"] ELSE [e EXCEPT !.rejected = @ + 1]

\* submit(fn, priority): the test of running(), which takes the start/stop lock.
Submit_check ==
    /\ ep.subpc = "idle"
    /\ ep.ss = Free
    /\ Len(ep.tasks) < MaxTasks
    /\ ep.rejected < MaxRejected
    /\ ep' = running_check(ep, "subpc")

\* The future is registered, the task pushed under the queue lock and one
\* worker notified.
Submit_push ==
    /\ ep.subpc = "push"
    /\ ep.q = Free
    /\ \E fn \in Fns, priority \in {HIGH, LOW} :
          LET task_id == Len(ep.tasks) + 1
              e == [ep EXCEPT !.sequence = @ + 1,
                              !.futures = Put(@, task_id, Future),
                              !.task_queue = @ \cup {Task(priority, ep.sequence + 1,
                                                          task_id, fn, task_id)},
                              !.tasks = Append(@, "oneoff"),
                              !.fns = Append(@, fn),
                              !.started = Append(@, 0),
                              !.subpc = "idle"]
          IN ep' \in notify(e)

\* One step of a thread in submit.
Submit ==
    /\ ep # <<>>
    /\ Submit_check \/ Submit_push
    /\ UNCHANGED otherThanProcessor

\* submit_recurring(fn, interval_ms, priority): the test of running().
SubmitRecurring_check ==
    /\ ep.recpc = "idle"
    /\ ep.ss = Free
    /\ Len(ep.tasks) < MaxTasks
    /\ ep.rejected < MaxRejected
    /\ \A i \in 1..Len(ep.tasks) : ep.tasks[i] # "recurring"
    /\ ep' = running_check(ep, "recpc")

\* The recurring task pushed under the recurring lock, first due one interval
\* from now.
SubmitRecurring_push ==
    /\ ep.recpc = "push"
    /\ ep.r = Free
    /\ LET task_id == Len(ep.tasks) + 1
           fn == [kind |-> "callable", value |-> 42, raises |-> FALSE]
       IN ep' = [ep EXCEPT !.sequence = @ + 1,
                           !.recpc = "idle",
                           !.recurring_queue =
                               @ \cup {[next_run_time |-> ep.clock + Interval,
                                        interval_ms |-> Interval, priority |-> MEDIUM,
                                        sequence |-> ep.sequence + 1,
                                        task_id |-> task_id, fn |-> fn]},
                           !.tasks = Append(@, "recurring"),
                           !.fns = Append(@, fn),
                           !.started = Append(@, 0)]

\* One step of a thread in submit_recurring.
SubmitRecurring ==
    /\ ep # <<>>
    /\ SubmitRecurring_check \/ SubmitRecurring_push
    /\ UNCHANGED otherThanProcessor

\* A cancel that also cancels a future whose task is running.
Future_cancel_running(f) ==
    IF f.state \in {"PENDING", "RUNNING"} THEN [f EXCEPT !.state = "CANCELLED"] ELSE f

\* Future.cancel(): a pending future becomes cancelled; a running or finished
\* one stays as it is.
Future_cancel(f) == IF f.state = "PENDING" THEN [f EXCEPT !.state = "CANCELLED"] ELSE f

\* cancel(task_id): "self._cancelled.add(task_id)"; `cancelling` is the task
\* id of the call in progress, 0 when there is none.
Cancel_add ==
    /\ ep.cancelling = 0
    /\ \E task_id \in 1..Len(ep.tasks) :
          /\ task_id \notin ep.cancelled
          /\ ep' = [ep EXCEPT !.cancelled = @ \cup {task_id}, !.cancelling = task_id]

\* "future = self._futures.get(task_id); if future: future.cancel(); return True"
Cancel_future ==
    /\ ep.cancelling # 0
    /\ ep' = [ep EXCEPT !.cancelling = 0,
                        !.futures = IF ep.cancelling \in DOMAIN @
                                    THEN Put(@, ep.cancelling, Future_cancel(@[ep.cancelling]))
                                    ELSE @]

\* One step of a thread in cancel(task_id), which takes no lock.
CancelTask ==
    /\ ep # <<>>
    /\ Cancel_add \/ Cancel_future
    /\ UNCHANGED otherThanProcessor

\* The holder of a future that submit returned calls its cancel().
CancelFuture ==
    /\ ep # <<>>
    /\ \E task_id \in DOMAIN ep.futures :
          /\ ep.futures[task_id].state \in {"PENDING", "RUNNING"}
          /\ task_id \notin ep.cancelled
          /\ ep' = [ep EXCEPT !.futures[task_id] = Future_cancel(@)]
    /\ UNCHANGED otherThanProcessor

\* time.monotonic() advances.
Tick ==
    /\ ep # <<>>
    /\ ep.clock < MaxClock
    /\ ep' = [ep EXCEPT !.clock = @ + 1]
    /\ UNCHANGED otherThanProcessor

\* _worker_loop: "with self._queue_cond:"
Worker_lock(w) ==
    /\ ep.wpc[w] = "top"
    /\ ep.q = Free
    /\ ep' = [ep EXCEPT !.q = w, !.wpc[w] = "guard"]

\* "while not self._task_queue and self.running(): self._queue_cond.wait()";
\* running() takes the start/stop lock, wait releases the queue lock.
Worker_guard(w) ==
    /\ ep.wpc[w] = "guard"
    /\ IF ep.task_queue # {} THEN ep' = [ep EXCEPT !.wpc[w] = "check"]
       ELSE /\ ep.ss = Free
            /\ ep' = IF ep.running
                     THEN [ep EXCEPT !.q = Free, !.wpc[w] = "waiting", !.woken[w] = FALSE]
                     ELSE [ep EXCEPT !.wpc[w] = "check"]

\* wait returns: the notified worker takes the queue lock again.
Worker_wake(w) ==
    /\ ep.wpc[w] = "waiting"
    /\ ep.woken[w]
    /\ ep.q = Free
    /\ ep' = [ep EXCEPT !.q = w, !.wpc[w] = "guard", !.woken[w] = FALSE]

\* "if not self.running(): break" and "task = heapq.heappop(self._task_queue)"
Worker_pop(w) ==
    /\ ep.wpc[w] = "check"
    /\ ep.ss = Free
    /\ ep' = IF ~ep.running THEN [ep EXCEPT !.q = Free, !.wpc[w] = "exited"]
             ELSE [ep EXCEPT !.q = Free, !.wpc[w] = "got",
                             !.wtask[w] = <<HeapTop(ep.task_queue)>>,
                             !.task_queue = @ \ {HeapTop(ep.task_queue)}]

\* "if task.priority == _EXIT: break" and
\* "if task.future.cancelled() or task.task_id in self._cancelled: continue"
Worker_inspect(w) ==
    /\ ep.wpc[w] = "got"
    /\ LET task == ep.wtask[w][1]
       IN ep' = IF task.priority = EXIT
                THEN [ep EXCEPT !.wpc[w] = "exited", !.wtask[w] = <<>>]
                ELSE IF \/ task.future # None /\ ep.futures[task.future].state = "CANCELLED"
                        \/ task.task_id \in ep.cancelled
                THEN [ep EXCEPT !.wpc[w] = "top", !.wtask[w] = <<>>]
                ELSE [ep EXCEPT !.wpc[w] = "run"]

\* "if task.future.set_running_or_notify_cancel():" a cancelled future stops
\* the task here; any other becomes running and the call of fn begins.
Worker_run(w) ==
    /\ ep.wpc[w] = "run"
    /\ LET task == ep.wtask[w][1]
       IN ep' = IF task.future # None /\ ep.futures[task.future].state = "CANCELLED"
                THEN [ep EXCEPT !.wpc[w] = "top", !.wtask[w] = <<>>]
                ELSE LET ran == [ep EXCEPT !.wpc[w] = "running",
                                           !.started[task.task_id] = @ + 1]
                     IN IF task.future = None THEN ran
                        ELSE [ran EXCEPT !.futures[task.future].state = "RUNNING"]

\* fn returns and "task.future.set_result(result)", or fn raises and
\* "task.future.set_exception(Exception)".
Worker_finish(w) ==
    /\ ep.wpc[w] = "running"
    /\ LET task == ep.wtask[w][1]
           done == [ep EXCEPT !.wpc[w] = "top", !.wtask[w] = <<>>]
       IN ep' = IF task.future = None THEN done
                ELSE [done EXCEPT !.futures[task.future] =
                         IF task.fn.raises
                         THEN [state |-> "FINISHED", result |-> None]
                         ELSE [state |-> "FINISHED", result |-> task.fn.value]]

\* One step of a worker thread.
Worker(w) ==
    /\ ep # <<>>
    /\ \/ Worker_lock(w) \/ Worker_guard(w) \/ Worker_wake(w)
       \/ Worker_pop(w) \/ Worker_inspect(w) \/ Worker_run(w) \/ Worker_finish(w)
    /\ UNCHANGED otherThanProcessor

\* _scheduler_loop: "while self.running(): now = time.monotonic()"
Scheduler_loop ==
    /\ ep.spc = "loop"
    /\ ep.ss = Free
    /\ ep' = IF ep.running THEN [ep EXCEPT !.spc = "lock", !.now = ep.clock]
             ELSE [ep EXCEPT !.spc = "exited"]

\* "with self._rec_cond:"
Scheduler_lock ==
    /\ ep.spc = "lock"
    /\ ep.r = Free
    /\ ep' = [ep EXCEPT !.r = SchedulerThread, !.spc = "scan"]

\* "while self._recurring_queue and ...next_run_time <= now: rt = heappop(...)";
\* when nothing is due, self._rec_cond.wait(timeout) releases the lock.
Scheduler_scan ==
    /\ ep.spc = "scan"
    /\ ep' = IF /\ ep.recurring_queue # {}
                /\ HeapTopRecurring(ep.recurring_queue).next_run_time <= ep.now
             THEN [ep EXCEPT !.spc = "due",
                             !.srt = <<HeapTopRecurring(ep.recurring_queue)>>,
                             !.recurring_queue = @ \ {HeapTopRecurring(ep.recurring_queue)}]
             ELSE [ep EXCEPT !.spc = "sleeping", !.r = Free]

\* "if rt.task_id not in self._cancelled:"
Scheduler_due ==
    /\ ep.spc = "due"
    /\ ep' = IF ep.srt[1].task_id \notin ep.cancelled THEN [ep EXCEPT !.spc = "enqueue"]
             ELSE [ep EXCEPT !.spc = "scan", !.srt = <<>>]

\* The task pushed under the queue lock and one worker notified; the recurring
\* task pushed back with its next run time.
Scheduler_enqueue ==
    /\ ep.spc = "enqueue"
    /\ ep.q = Free
    /\ LET rt == ep.srt[1]
           e == [ep EXCEPT !.sequence = @ + 1,
                           !.task_queue = @ \cup {Task(rt.priority, ep.sequence + 1,
                                                       rt.task_id, rt.fn, None)},
                           !.pushed = @ + 1,
                           !.recurring_queue =
                               @ \cup {[rt EXCEPT !.next_run_time = ep.now + rt.interval_ms]},
                           !.requeued = @ + 1,
                           !.srt = <<>>, !.spc = "scan"]
       IN ep' \in notify(e)

\* wait(timeout) returns, at the latest after scheduler_resolution: the
\* scheduler takes the lock again and leaves the with block.
Scheduler_wake ==
    /\ ep.spc = "sleeping"
    /\ ep.r = Free
    /\ ep' = [ep EXCEPT !.spc = "loop"]

\* One step of the scheduler thread; auto-scaling is off (ENABLE_AUTO_SCALING
\* defaults to false).
Scheduler ==
    /\ ep # <<>>
    /\ \/ Scheduler_loop \/ Scheduler_lock \/ Scheduler_scan
       \/ Scheduler_due \/ Scheduler_enqueue \/ Scheduler_wake
    /\ UNCHANGED otherThanProcessor

\* stop(wait): "with self._start_stop_lock: if not self._running: return;
\* self._running = False"
Stop_begin ==
    /\ ep.stpc = "idle"
    /\ ep.ss = Free
    /\ \E wait \in BOOLEAN :
          ep' = IF ~ep.running THEN [ep EXCEPT !.stpc = "returned", !.wait = wait]
                ELSE [ep EXCEPT !.ss = StopThread, !.running = FALSE, !.stpc = "wake_workers",
                                !.wait = wait]

\* "with self._queue_cond: self._queue_cond.notify_all()"
Stop_wake_workers ==
    /\ ep.stpc = "wake_workers"
    /\ ep.q = Free
    /\ ep' = [notify_all_workers(ep) EXCEPT !.stpc = "wake_scheduler"]

\* "with self._rec_cond: self._rec_cond.notify_all()"
Stop_wake_scheduler ==
    /\ ep.stpc = "wake_scheduler"
    /\ ep.r = Free
    /\ ep' = [ep EXCEPT !.stpc = "exit_signals"]

\* One _EXIT task pushed per worker under the queue lock, then notify_all.
Stop_exit_signals ==
    /\ ep.stpc = "exit_signals"
    /\ ep.q = Free
    /\ ep' = [notify_all_workers(ep) EXCEPT
                 !.sequence = @ + MaxWorkers,
                 !.task_queue = @ \cup {Task(EXIT, ep.sequence + w, 0, <<>>, None) :
                                          w \in Workers},
                 !.stpc = IF ep.wait THEN "join_scheduler" ELSE "release"]

\* "self._scheduler_thread.join()"
Stop_join_scheduler ==
    /\ ep.stpc = "join_scheduler"
    /\ ep.spc = "exited"
    /\ ep' = [ep EXCEPT !.stpc = "join_workers"]

\* "for w in self._workers: w.join()"
Stop_join_workers ==
    /\ ep.stpc = "join_workers"
    /\ \A w \in Workers : ep.wpc[w] = "exited"
    /\ ep' = [ep EXCEPT !.stpc = "release"]

\* The with block of stop ends: the start/stop lock is released and stop returns.
Stop_release ==
    /\ ep.stpc = "release"
    /\ ep' = [ep EXCEPT !.ss = Free, !.stpc = "returned"]

\* One step of the thread that called stop.
Stop ==
    /\ ep # <<>>
    /\ \/ Stop_begin \/ Stop_wake_workers \/ Stop_wake_scheduler \/ Stop_exit_signals
       \/ Stop_join_scheduler \/ Stop_join_workers \/ Stop_release
    /\ UNCHANGED otherThanProcessor

\* The pool of a processor that stays running: one-off tasks and the workers.
\* The scheduler thread touches the task queue for recurring tasks alone.
PoolNext == Submit \/ CancelTask \/ (\E w \in Workers : Worker(w))

\* The pool with callers that cancel through cancel(task_id) and through the future.
CancelNext == Submit \/ CancelTask \/ CancelFuture \/ (\E w \in Workers : Worker(w))

\* The scheduler of a processor that stays running, and the workers it feeds.
RecurringNext ==
    \/ SubmitRecurring \/ CancelTask \/ Tick
    \/ (\E w \in Workers : Worker(w)) \/ Scheduler

\* A processor somebody stops while its callers submit tasks; the clock stands
\* still, so that no recurring task falls due.
SubmitStopNext ==
    \/ Submit \/ SubmitRecurring
    \/ (\E w \in Workers : Worker(w)) \/ Scheduler \/ Stop

\* A processor somebody stops while a recurring task keeps its workers busy.
StopNext ==
    \/ SubmitRecurring \/ Tick
    \/ (\E w \in Workers : Worker(w)) \/ Scheduler \/ Stop

(* ------------------------------------------------------------------ *)
(* classify_obj_by_umaa (util/umaa_utils.py)                           *)
(* ------------------------------------------------------------------ *)

\* UMAAConcept: each member's required attribute set (`attrs`).
UMAAConcept ==
    [COMMAND |-> {"timeStamp", "source", "destination", "sessionID"},
     ACKNOWLEDGEMENT |-> {"timeStamp", "source", "sessionID", "command"},
     STATUS |-> {"timeStamp", "source", "sessionID", "commandStatus",
                 "commandStatusReason", "logMessage"},
     EXECUTION_STATUS |-> {"timeStamp", "source", "sessionID"},
     REPORT |-> {"timeStamp", "source"},
     GENERALIZATION |-> {"specializationTopic", "specializationID", "specializationTimestamp"},
     SPECIALIZATION |-> {"specializationReferenceID", "specializationReferenceTimestamp"},
     LARGE_SET |-> {"setID", "updateElementID", "updateElementTimestamp", "size"},
     LARGE_SET_ELEMENT |-> {"element", "setID", "elementID", "elementTimestamp"},
     LARGE_LIST |-> {"listID", "updateElementID", "updateElementTimestamp",
                     "startingElementID", "size"},
     LARGE_LIST_ELEMENT |-> {"element", "listID", "elementID", "elementTimestamp",
                             "nextElementID"}]

\* "[c for c in UMAAConcept if c.attrs.issubset(set(vars(current).keys()))]"
matched(keys) == {c \in DOMAIN UMAAConcept : UMAAConcept[c] \subseteq keys}

\* A classifier that records every matching concept.
winners_unfiltered(m) == m

\* "{c for c in matched if not any(c.attrs.issubset(other.attrs) and c != other
\*   for other in matched)}"
winners(m) ==
    {c \in m : ~\E other \in m : UMAAConcept[c] \subseteq UMAAConcept[other] /\ c # other}

\* The objects nested in obj, by path: obj itself at the empty path and, when
\* its attribute `element` holds an object, that object at <<"element">>.
ObjectsByPath(obj) ==
    IF obj.element = <<>> THEN [p \in {<<>>} |-> obj.keys]
    ELSE [p \in {<<>>, <<"element">>} |-> IF p = <<>> THEN obj.keys ELSE obj.element[1]]

\* classify_obj_by_umaa(obj): the traversal records the winners at every path
\* whose object matches some concept.
classify_obj_by_umaa(obj) ==
    LET objs == ObjectsByPath(obj)
    IN [p \in {q \in DOMAIN objs : matched(objs[q]) # {}} |-> winners(matched(objs[p]))]

\* Attribute sets of the objects classified: what any group of concepts
\* requires together, alone or with an attribute no concept names.
ConceptUnions == {UNION {UMAAConcept[c] : c \in S} : S \in SUBSET (DOMAIN UMAAConcept)}

ClassifiedKeys == ConceptUnions \cup {u \cup {"speed"} : u \in ConceptUnions}

\* The objects an `element` attribute holds.
NestedKeys ==
    {{}, {"speed"}, UMAAConcept.REPORT, UMAAConcept.COMMAND,
     UMAAConcept.GENERALIZATION \cup UMAAConcept.SPECIALIZATION}

ClassifierInit ==
    /\ \E keys \in ClassifiedKeys :
       \E element \in {<<>>} \cup (IF "element" \in keys THEN {<<k>> : k \in NestedKeys} ELSE {}) :
          cls = [obj |-> [keys |-> keys, element |-> element], cmap |-> <<>>, pc |-> "call"]

\* classify_obj_by_umaa returns.
Classify ==
    /\ cls # <<>>
    /\ cls.pc = "call"
    /\ cls' = [cls EXCEPT !.cmap = classify_obj_by_umaa(cls.obj), !.pc = "done"]
    /\ UNCHANGED otherThanClassifier

ReaderIdle == ReaderInit({<<>>}) /\ consumer = "callback"

\* No EventProcessor and no UmaaCommand has been constructed.
UtilIdle == cls = <<>> /\ adp = <<>> /\ inst = <<>>

ProcIdle == ep = <<>> /\ cmd = <<>> /\ UtilIdle

OthersIdle == ChainIdle /\ WriterIdle /\ ViewIdle /\ ProcIdle

ReaderNext == Deliver \/ PollRoot \/ ChildReady

\* A node with the set decorator alone.
InitSet == ReaderInit({<<SetName>>}) /\ OthersIdle

SpecSet == InitSet /\ [][ReaderNext]_vars

\* A node with the list decorator alone.
InitList == ReaderInit({<<ListName>>}) /\ OthersIdle

SpecList == InitList /\ [][ReaderNext]_vars

\* A node with the generalization / specialization decorator alone.
InitGen == ReaderInit({<<GenRole>>}) /\ OthersIdle

SpecGen == InitGen /\ [][ReaderNext]_vars

\* A node with two decorators, in either registration order.
InitPair ==
    /\ ReaderInit({<<SetName, GenRole>>, <<GenRole, SetName>>, <<SetName, ListName>>})
    /\ OthersIdle

SpecPair == InitPair /\ [][ReaderNext]_vars

\* The application has made no call on the adapter yet.
AdapterInit == [taken |-> <<>>, seen |-> <<>>]

\* UmaaReaderAdapter.take: "with self._buf_lock: out = list(self._buf);
\* self._buf.clear(); return out". `after` is the number of parent_notify
\* calls the root had made when the lock was taken.
AdapterTake ==
    /\ adp # <<>>
    /\ Len(adp.taken) + Len(adp.seen) < MaxTakes
    /\ adp' = [adp EXCEPT !.taken = Append(@, [out |-> buf, after |-> Len(calls)])]
    /\ buf' = <<>>
    /\ UNCHANGED <<decorators, consumer, combined_by_key, info_by_key, colls,
                   elems_by_set, meta_by_set, parent_key_by_set,
                   elems_by_list, meta_by_list, parent_key_by_list,
                   gen_by_spec_id, spec_by_topic_id, parent_key_by_spec_id,
                   calls, signalled, heard, leaf_combined_by_key, leaf_info_by_key,
                   wire, nextKey, arrivals, childLog, pollRaised>>
    /\ UNCHANGED <<chainVars, writerVars, viewVars, pollSt, ep, cmd, cls, inst>>

\* UmaaReaderAdapter.read: "with self._buf_lock: return list(self._buf)".
AdapterRead ==
    /\ adp # <<>>
    /\ Len(adp.taken) + Len(adp.seen) < MaxTakes
    /\ adp' = [adp EXCEPT !.seen = Append(@, [out |-> buf, after |-> Len(calls)])]
    /\ UNCHANGED otherThanAdapter

\* A node with the set decorator whose consumer is a UmaaReaderAdapter, and the
\* application thread that reads and takes from the adapter. _on_ready and
\* read / take hold _buf_lock around their work on the buffer, so each is one step.
AdapterNext == ReaderNext \/ AdapterTake \/ AdapterRead

InitAdapter ==
    /\ ReaderInit({<<SetName>>}) /\ consumer = "adapter"
    /\ ChainIdle /\ WriterIdle /\ ViewIdle
    /\ ep = <<>> /\ cmd = <<>> /\ cls = <<>> /\ inst = <<>>
    /\ adp = AdapterInit

SpecAdapter == InitAdapter /\ [][AdapterNext]_vars

\* The threads that call DDSConfigurator(...) or EventProcessor().
Constructors == 1..MaxConstructors

\* The singleton classes: both have the same __new__ and the same guard at the
\* head of __init__.
SingletonClasses == {"DDSConfigurator", "EventProcessor"}

\* A class whose _instance is None, and threads about to construct it.
\* `objects` counts the instances object.__new__ made, `bodies` the runs of
\* the __init__ body past the guard, `resources` the DomainParticipants
\* created (DDSConfigurator) or the worker pools with their scheduler started
\* (EventProcessor).
SingletonInit ==
    \E c \in SingletonClasses :
       inst = [class |-> c, instance |-> None, lock |-> Free, objects |-> 0,
               initialized |-> FALSE, running |-> FALSE, bodies |-> 0, resources |-> 0,
               pc |-> [t \in Constructors |-> "call"],
               got |-> [t \in Constructors |-> None]]

\* __new__: "with cls._instance_lock:".
New_lock(t) ==
    /\ inst.pc[t] = "call"
    /\ inst.lock = Free
    /\ inst' = [inst EXCEPT !.lock = t, !.pc[t] = "locked"]

\* __new__: "if cls._instance is None: cls._instance = super().__new__(cls)".
New_create(t) ==
    /\ inst.pc[t] = "locked"
    /\ inst' = IF inst.instance = None
               THEN [inst EXCEPT !.objects = @ + 1, !.instance = inst.objects + 1,
                                 !.pc[t] = "created"]
               ELSE [inst EXCEPT !.pc[t] = "created"]

\* __new__: the lock is released and "return cls._instance".
New_return(t) ==
    /\ inst.pc[t] = "created"
    /\ inst' = [inst EXCEPT !.lock = Free, !.got[t] = inst.instance, !.pc[t] = "init"]

\* __init__: 'if getattr(self, "_initialized", False): return'. No lock is held.
Init_guard(t) ==
    /\ inst.pc[t] = "init"
    /\ inst' = [inst EXCEPT !.pc[t] = IF inst.initialized THEN "done" ELSE "set"]

\* __init__: "self._initialized = True".
Init_set(t) ==
    /\ inst.pc[t] = "set"
    /\ inst' = [inst EXCEPT !.initialized = TRUE, !.bodies = @ + 1, !.pc[t] = "body"]

\* The rest of the body. DDSConfigurator creates the QosProvider, the
\* DomainParticipant, the Publisher and the Subscriber. EventProcessor sets
\* _running to False and replaces the locks, the queues and the worker list.
Init_body(t) ==
    /\ inst.pc[t] = "body"
    /\ inst' = IF inst.class = "DDSConfigurator"
               THEN [inst EXCEPT !.resources = @ + 1, !.pc[t] = "done"]
               ELSE [inst EXCEPT !.running = FALSE, !.pc[t] = "start"]

\* EventProcessor.start, called last by __init__: "if self._running: return",
\* else the workers and the scheduler thread are started.
Init_start(t) ==
    /\ inst.pc[t] = "start"
    /\ inst' = IF inst.running
               THEN [inst EXCEPT !.pc[t] = "done"]
               ELSE [inst EXCEPT !.running = TRUE, !.resources = @ + 1, !.pc[t] = "done"]

\* One thread evaluating the constructor call.
Construct(t) ==
    /\ inst # <<>>
    /\ \/ New_lock(t) \/ New_create(t) \/ New_return(t)
       \/ Init_guard(t) \/ Init_set(t) \/ Init_body(t) \/ Init_start(t)
    /\ UNCHANGED otherThanSingleton

SingletonNext == \E t \in Constructors : Construct(t)

InitSingleton ==
    /\ ReaderIdle /\ ChainIdle /\ WriterIdle /\ ViewIdle
    /\ ep = <<>> /\ cmd = <<>> /\ cls = <<>> /\ adp = <<>>
    /\ SingletonInit

SpecSingleton == InitSingleton /\ [][SingletonNext]_vars

\* _ordered_chain on every buffer and start, run to its return.
InitChain == ReaderIdle /\ WriterIdle /\ ViewIdle /\ ProcIdle /\ ChainInit

SpecChain == InitChain /\ [][ChainNext]_vars /\ WF_vars(ChainNext)

\* One builder published through the writer graph, up to MaxPublish times.
InitWriter == ReaderIdle /\ ChainIdle /\ ViewIdle /\ ProcIdle /\ WriterInit

SpecWriter == InitWriter /\ [][WriterNext]_vars

\* The writer graph on a transport whose writes can fail.
InitFault == ReaderIdle /\ ChainIdle /\ ViewIdle /\ ProcIdle /\ WriterInit

SpecFault == InitFault /\ [][FaultNext]_vars

\* The writer graph publishing to the reader graph.
InitRoundTrip == RoundTripInit /\ ChainIdle /\ ViewIdle /\ ProcIdle

SpecRoundTrip == InitRoundTrip /\ [][RoundTripNext]_vars

\* A node with two decorators whose reader and child readers run on their own threads.
InitRace == ReaderInit({<<GenRole, SetName>>}) /\ consumer = "callback" /\ OthersIdle

SpecRace == InitRace /\ [][RaceNext]_vars

\* Attribute lookups on views over every base, overlay, collections and nested overlays.
InitView == ReaderIdle /\ ChainIdle /\ WriterIdle /\ ProcIdle /\ ViewInit

SpecView == InitView /\ [][ViewNext]_vars

\* classify_obj_by_umaa on every object of ClassifiedKeys.
InitClassifier ==
    /\ ReaderIdle /\ ChainIdle /\ WriterIdle /\ ViewIdle
    /\ ep = <<>> /\ cmd = <<>> /\ adp = <<>> /\ inst = <<>>
    /\ ClassifierInit

SpecClassifier == InitClassifier /\ [][Classify]_vars

\* A running EventProcessor and the callers of submit and cancel; every worker
\* thread that can take a step eventually takes one.
InitPool == ReaderIdle /\ ChainIdle /\ WriterIdle /\ ViewIdle /\ cmd = <<>> /\ UtilIdle /\ ProcessorInit

SpecPool ==
    /\ InitPool /\ [][PoolNext]_vars
    /\ \A w \in Workers : WF_vars(Worker(w))

\* A running EventProcessor whose tasks are cancelled while they wait and run.
InitCancel == ReaderIdle /\ ChainIdle /\ WriterIdle /\ ViewIdle /\ cmd = <<>> /\ UtilIdle /\ ProcessorInit

SpecCancel ==
    /\ InitCancel /\ [][CancelNext]_vars
    /\ \A w \in Workers : WF_vars(Worker(w))

\* A running EventProcessor with a recurring task.
InitRecurring == ReaderIdle /\ ChainIdle /\ WriterIdle /\ ViewIdle /\ cmd = <<>> /\ UtilIdle /\ ProcessorInit

SpecRecurring ==
    /\ InitRecurring /\ [][RecurringNext]_vars
    /\ \A w \in Workers : WF_vars(Worker(w))
    /\ WF_vars(Scheduler)

\* A running EventProcessor that is stopped while tasks are submitted to it.
InitSubmitStop ==
    ReaderIdle /\ ChainIdle /\ WriterIdle /\ ViewIdle /\ cmd = <<>> /\ UtilIdle /\ ProcessorInit

SpecSubmitStop ==
    /\ InitSubmitStop /\ [][SubmitStopNext]_vars
    /\ \A w \in Workers : WF_vars(Worker(w))
    /\ WF_vars(Scheduler) /\ WF_vars(Stop)

\* A running EventProcessor that is stopped while it works.
InitStop == ReaderIdle /\ ChainIdle /\ WriterIdle /\ ViewIdle /\ cmd = <<>> /\ UtilIdle /\ ProcessorInit

SpecStop ==
    /\ InitStop /\ [][StopNext]_vars
    /\ \A w \in Workers : WF_vars(Worker(w))
    /\ WF_vars(Scheduler) /\ WF_vars(Stop)

\* One UmaaCommand executed on a thread of its own while its provider updates
\* and cancels it; the thread in execute is scheduled as long as it can run.
InitCommand == ReaderIdle /\ ChainIdle /\ WriterIdle /\ ViewIdle /\ ep = <<>> /\ UtilIdle /\ CommandInit

SpecCommand == InitCommand /\ [][CommandNext]_vars /\ WF_vars(Execute)

\* One UmaaCommand whose hooks can raise, executed while its provider updates
\* and cancels it.
InitLifecycle ==
    ReaderIdle /\ ChainIdle /\ WriterIdle /\ ViewIdle /\ ep = <<>> /\ UtilIdle /\ LifecycleInit

SpecLifecycle ==
    /\ InitLifecycle /\ [][LifecycleNext]_vars
    /\ WF_vars(Execute) /\ WF_vars(Execute_except)

(* ------------------------------------------------------------------ *)
(* Claims about the reader node                                        *)
(* ------------------------------------------------------------------ *)

Roles == {decorators[i] : i \in 1..Len(decorators)}

\* The calls of parent_notify that carry a combined sample.
Emissions == {i \in 1..Len(calls) : calls[i].combined # <<>>}

\* C1: on a node with two or more decorators, parent_notify is invoked with a
\* combined sample for a key only when every decorator has signalled complete
\* for that key.
C1_NotifyOnlyWhenAllComplete ==
    Len(decorators) >= 2 =>
        \A i \in Emissions : Roles \subseteq calls[i].done

\* C1, the case: one decorator of two has signalled complete for a key.
C1_OneOfTwoComplete ==
    /\ Len(decorators) >= 2
    /\ \E k \in DOMAIN signalled : signalled[k] # {} /\ signalled[k] # Roles

\* The (setID, updateElementID, updateElementTimestamp) triple of an emitted sample.
Triple(call) ==
    LET m == call.combined[1].base.itemsSetMetadata
    IN <<m.setID, m.updateElementID, m.updateElementTimestamp>>

\* The latest metadata of set s names a buffered element whose timestamp agrees.
SetMatched(metas, elems, s) ==
    /\ s \in DOMAIN metas
    /\ s \in DOMAIN elems
    /\ LET m == metas[s].itemsSetMetadata
       IN /\ m.updateElementID # None
          /\ BucketHas(elems[s], m.updateElementID)
          /\ \/ m.updateElementTimestamp = None
             \/ BucketGet(elems[s], m.updateElementID).elementTimestamp
                    = m.updateElementTimestamp

\* C2: the node emits exactly one combined sample per distinct
\* (setID, updateElementID, updateElementTimestamp) triple: one once the update
\* element and the metadata have both arrived, and never a second one.
C2_ExactlyOnePerTriple ==
    /\ \A i, j \in Emissions : Triple(calls[i]) = Triple(calls[j]) => i = j
    /\ \A s \in DOMAIN meta_by_set :
          SetMatched(meta_by_set, elems_by_set, s) =>
             \E i \in Emissions :
                Triple(calls[i]) = Triple([combined |-> <<[base |-> meta_by_set[s]]>>])

\* C4: the node with a GenSpecReader emits at most one combined sample per
\* generalization sample (per assembly key), however often the specialization
\* is delivered.
C4_AtMostOnePerGeneralization ==
    \A i, j \in Emissions : calls[i].key = calls[j].key => i = j

\* The specialization the generalization g references, arriving from child topic t.
References(g, t, spec) ==
    /\ g.specializationTopic = t
    /\ g.specializationID = spec.specializationReferenceID
    /\ \/ g.specializationTimestamp = None
       \/ g.specializationTimestamp = spec.specializationReferenceTimestamp

\* C4, the case: a generalization has been drained and the specialization it
\* references has been handed up twice.
C4_SpecializationRepeated ==
    \E k \in DOMAIN combined_by_key : \E i, j \in 1..Len(childLog) :
        /\ i < j
        /\ childLog[i] = childLog[j]
        /\ childLog[i].role = GenRole
        /\ References(combined_by_key[k].base.objective, childLog[i].child, childLog[i].base)

\* C7: a record with an invalid info drained by poll_once on the root reaches the
\* root adapter's consumer, as (key, None, info), before poll_once returns.
C7_DisposeReachesAdapter ==
    consumer = "adapter" =>
        \A i \in 1..Len(calls) : calls[i].by = "dispose" => calls[i].ok

\* C9: when the latest metadata of a set and the element its updateElementID names
\* have both arrived (in either order, timestamps equal where the metadata has
\* one), the step that completes the pair emits a combined sample for the
\* metadata's key whose collection is every element buffered for that setID,
\* the named element among them.
C9_SetCompletesEitherOrder ==
    [][\A s \in GUIDS :
          (~SetMatched(meta_by_set, elems_by_set, s)
             /\ SetMatched(meta_by_set', elems_by_set', s))
          => \E i \in (Len(calls) + 1)..Len(calls') :
                /\ calls'[i].by = SetName
                /\ calls'[i].combined # <<>>
                /\ calls'[i].key = parent_key_by_set'[s]
                /\ calls'[i].combined[1].base = meta_by_set'[s]
                /\ SetName \in DOMAIN calls'[i].items
                /\ calls'[i].items[SetName] = elems_by_set'[s]
                /\ BucketHas(calls'[i].items[SetName],
                             meta_by_set'[s].itemsSetMetadata.updateElementID)]_vars

\* Both orders have completed a pair: an element arriving after its metadata
\* (the child's callback emitted) and a metadata arriving after its element
\* (poll_once emitted).
C9_BothOrdersCompleted ==
    \E i, j \in Emissions :
        /\ calls[i].by = SetName /\ calls[i].via = "child"
        /\ calls[j].by = SetName /\ calls[j].via = "poll"
        /\ calls[i].items[SetName] # <<>>
        /\ calls[j].items[SetName] # <<>>

\* C10: for either arrival order of a generalization and the specialization it
\* references, once both have arrived the node has emitted a combined sample for
\* the generalization's key with the specialization installed at attr_path.
C10_GenSpecCompletesEitherOrder ==
    \A k \in DOMAIN combined_by_key : \A n \in 1..Len(childLog) :
        LET g == combined_by_key[k].base.objective
        IN (/\ childLog[n].role = GenRole
            /\ g.specializationID \in DOMAIN parent_key_by_spec_id
            /\ parent_key_by_spec_id[g.specializationID] = k
            /\ References(g, childLog[n].child, childLog[n].base))
           => \E i \in Emissions :
                 /\ calls[i].key = k
                 /\ AttrPath \in DOMAIN calls[i].combined[1].overlays_by_path
                 /\ calls[i].combined[1].overlays_by_path[AttrPath] = childLog[n].base

(* ------------------------------------------------------------------ *)
(* Claims about the ordered chain                                      *)
(* ------------------------------------------------------------------ *)

ChainIdsOf(q) == {q[i].elementID : i \in 1..Len(q)}

NoDuplicates(q) == \A i, j \in 1..Len(q) : i # j => q[i].elementID # q[j].elementID

\* q is the walk from start through the buffer b: it begins at the buffered
\* element with id start, each element is followed by the buffered element its
\* nextElementID names, and it ends at the first next that is absent, not
\* buffered or already in the walk.
IsWalk(q, b, start) ==
    /\ q = <<>> <=> ~BucketHas(b, start)
    /\ q # <<>> => q[1].elementID = start
    /\ \A i \in 1..Len(q) : BucketHas(b, q[i].elementID) /\ q[i] = BucketGet(b, q[i].elementID)
    /\ \A i \in 1..(Len(q) - 1) : q[i].nextElementID = q[i + 1].elementID
    /\ NoDuplicates(q)
    /\ q # <<>> =>
          LET nxt == q[Len(q)].nextElementID
          IN nxt = None \/ ~BucketHas(b, nxt) \/ nxt \in ChainIdsOf(q)

ChainSound ==
    /\ NoDuplicates(chainSt.ordered)
    /\ Len(chainSt.ordered) <= Len(chainElems)
    /\ chainPc = "done" =>
          /\ chainSt.ordered = ordered_chain(chainElems, chainStart)
          /\ chainStart # None => IsWalk(chainSt.ordered, chainElems, chainStart)

Writes(ev) == {k \in 1..Len(ev) : ev[k].kind = "write"}

\* C6: a publish call that follows another with no change to the builder in
\* between issues the same writes, with the same identifiers in every sample,
\* and allocates no GUID.
C6_RepublishSameIdentifiers ==
    \A n \in 2..Len(wcalls) :
        ~wcalls[n].mutated =>
            /\ wcalls[n].events = wcalls[n - 1].events
            /\ wcalls[n].allocated = 0

\* A second publish of an unchanged builder whose first publish allocated the
\* setID, the listID and the specialization's ID and wrote elements.
C6_RepublishedAfterAllocation ==
    /\ Len(wcalls) = 2
    /\ ~wcalls[2].mutated
    /\ ~wcalls[1].raised
    /\ wcalls[1].allocated >= 3
    /\ \E k \in Writes(wcalls[2].events) : wcalls[2].events[k].node = SetChild
    /\ \E k \in Writes(wcalls[2].events) : wcalls[2].events[k].node = ListChild
    /\ \E k \in Writes(wcalls[2].events) : wcalls[2].events[k].node \in SpecTopics

\* The calls of WriterNode.publish that returned: the positions of "begin" and
\* of the matching "end" of one node.
Returned(ev) ==
    {p \in (1..Len(ev)) \X (1..Len(ev)) :
        /\ p[1] < p[2]
        /\ ev[p[1]].kind = "begin" /\ ev[p[2]].kind = "end"
        /\ ev[p[1]].node = ev[p[2]].node
        /\ \A k \in (p[1] + 1)..(p[2] - 1) :
              ev[k].node = ev[p[1]].node => ev[k].kind = "write"}

\* C8: within one WriterNode.publish call, every write of a child node, at any
\* depth, comes before the node's own base write; the node writes its base
\* once when it writes base, and never when write_base is false.
C8_ChildrenBeforeBase ==
    \A n \in 1..Len(wcalls) :
        LET ev == wcalls[n].events
        IN \A p \in Returned(ev) :
              LET own == {k \in p[1]..p[2] : ev[k].kind = "write" /\ ev[k].node = ev[p[1]].node}
                  below == {k \in p[1]..p[2] : ev[k].kind = "write" /\ ev[k].node # ev[p[1]].node}
              IN /\ Cardinality(own) = IF writeBase[ev[p[1]].node] THEN 1 ELSE 0
                 /\ \A k \in own : \A m \in below : m < k

\* A publish that wrote an element of the nested list, the specialization that
\* holds the list, a set element and the root's base.
C8_NestedPublishReturned ==
    \E n \in 1..Len(wcalls) :
        LET ev == wcalls[n].events
        IN /\ ~wcalls[n].raised
           /\ \E k \in Writes(ev) : ev[k].node = LegsChild
           /\ \E k \in Writes(ev) : ev[k].node = NestedTopic
           /\ \E k \in Writes(ev) : ev[k].node = SetChild
           /\ \E k \in Writes(ev) : ev[k].node = Root

(* ------------------------------------------------------------------ *)
(* Claims about writer and reader together                             *)
(* ------------------------------------------------------------------ *)

Populated(b) ==
    \/ AttrPath \in DOMAIN b.overlays_by_path
    \/ b.collections.items # <<>>
    \/ b.collections.waypoints # <<>>

\* What the view of a combined sample shows equals what the builder's shows:
\* the specialization's fields at the generalization's path, the set's
\* elements, the list's elements in order.
SameView(call, b) ==
    LET c == call.combined[1]
    IN /\ AttrPath \in DOMAIN b.overlays_by_path =>
             /\ AttrPath \in DOMAIN c.overlays_by_path
             /\ c.overlays_by_path[AttrPath].speed = b.overlays_by_path[AttrPath].speed
       /\ b.collections.items # <<>> =>
             /\ SetName \in DOMAIN call.items
             /\ {call.items[SetName][i] : i \in 1..Len(call.items[SetName])}
                    = {b.collections.items[i] : i \in 1..Len(b.collections.items)}
       /\ b.collections.waypoints # <<>> =>
             /\ ListName \in DOMAIN call.items
             /\ call.items[ListName] = b.collections.waypoints

\* Every sample a publish wrote has been taken by the reader graph.
Drained ==
    /\ wcalls # <<>>
    /\ ~wcalls[Len(wcalls)].raised
    /\ \A n \in DOMAIN wire : wire[n] = <<>>

\* C5: once the reader graph has drained the samples publish(B) wrote, children
\* before base, its consumer has received a combined sample whose view agrees
\* with B's on every attribute B populated.
C5_RoundTrip ==
    (Drained /\ Populated(builder)) =>
        \E i \in Emissions : calls[i].ok /\ SameView(calls[i], builder)

\* A populated builder was published and every sample it wrote was drained.
C5_PublishedAndDrained ==
    /\ Drained
    /\ builder.collections.items # <<>>
    /\ builder.collections.waypoints # <<>>
    /\ AttrPath \in DOMAIN builder.overlays_by_path

(* ------------------------------------------------------------------ *)
(* Claims about mismatches, per-key state and nil identifiers          *)
(* ------------------------------------------------------------------ *)

\* A child under "gen_spec" handed up a specialization in this step.
SpecArrives ==
    /\ Len(childLog') = Len(childLog) + 1
    /\ childLog'[Len(childLog')].role = GenRole

\* Some waiting generalization references the specialization from child topic t.
Awaited(gens, t, spec) ==
    \E k \in DOMAIN gens : References(gens[k], t, spec)

\* C11: when a specialization arrives and no waiting generalization agrees with
\* it on topic, specialization ID and timestamp (where the generalization
\* carries one), GenSpecReader signals no completion, and both sides remain
\* buffered: the specialization under its topic, every waiting generalization
\* where it was.
C11_MismatchKeepsBothBuffered ==
    [][SpecArrives =>
          LET e == childLog'[Len(childLog')]
          IN /\ e.child \in DOMAIN spec_by_topic_id'
             /\ \E k \in DOMAIN spec_by_topic_id'[e.child] :
                   spec_by_topic_id'[e.child][k] = e.base
             /\ gen_by_spec_id' = gen_by_spec_id
             /\ ~Awaited(gen_by_spec_id, e.child, e.base) => calls' = calls]_vars

\* C11, the case: a specialization has arrived while a generalization that
\* disagrees with it on topic, ID or timestamp was waiting.
C11_MismatchArrived ==
    \E n \in 1..Len(childLog) :
        /\ childLog[n].role = GenRole
        /\ gen_by_spec_id # <<>>
        /\ ~Awaited(gen_by_spec_id, childLog[n].child, childLog[n].base)

\* C12: per-key assembly state is one-shot: once the node has called
\* parent_notify for a key (with a combined sample, or with None for a
\* disposal), it holds no combined sample and no sample info for that key.
C12_NotifiedKeysCleared ==
    \A i \in 1..Len(calls) :
        /\ calls[i].key \notin DOMAIN combined_by_key
        /\ calls[i].key \notin DOMAIN info_by_key

\* C12, the case: the node has notified for a completed key and for a disposal.
C12_NotifiedBothWays ==
    \E i, j \in 1..Len(calls) : calls[i].combined # <<>> /\ calls[j].by = "dispose"

\* The root samples drained so far whose set metadata describes an empty set.
EmptySetKeys ==
    {k \in DOMAIN combined_by_key :
        LET m == combined_by_key[k].base.itemsSetMetadata
        IN m.size = 0 /\ m.updateElementID \in {None, NIL_GUID}}

\* C13: a root sample whose large-set metadata describes an empty set (size 0,
\* no update element to wait for) has nothing to assemble: once poll_once has
\* drained it, the root node has emitted a combined sample for its key.
C13_EmptySetStillEmits ==
    \A k \in EmptySetKeys : \E i \in Emissions : calls[i].key = k

\* C13, the case: poll_once has drained a root sample describing an empty set.
C13_EmptySetDrained == EmptySetKeys # {}

\* The identifier a decorator's completion of a root sample was gated on.
GateId(role, sample) ==
    IF role = SetName THEN sample.itemsSetMetadata.updateElementID
    ELSE IF role = ListName THEN sample.waypointsListMetadata.updateElementID
    ELSE sample.objective.specializationID

\* C15: a nil (all-zero) GUID in a metadata identifier field is unassigned: no
\* decorator completes a root sample whose updateElementID (set, list) or
\* specializationID (generalization) is NIL_GUID, whatever is buffered.
C15_NilIdNeverCompletes ==
    \A i \in Emissions :
        calls[i].by \in Roles => GateId(calls[i].by, calls[i].combined[1].base) # NIL_GUID

\* C15, the case: metadata naming the nil GUID and an element carrying the nil
\* GUID are buffered for the same set.
C15_NilElementBuffered ==
    \E s \in DOMAIN meta_by_set :
        /\ meta_by_set[s].itemsSetMetadata.updateElementID = NIL_GUID
        /\ s \in DOMAIN elems_by_set
        /\ BucketHas(elems_by_set[s], NIL_GUID)

(* ------------------------------------------------------------------ *)
(* Claims about what the writer decorators publish                     *)
(* ------------------------------------------------------------------ *)

\* The publish call this step made on the root, when it made one.
PublishStep == Len(wcalls') = Len(wcalls) + 1

\* The element writes of one publish call on a node, in order.
WritesOn(ev, node) ==
    LET RECURSIVE pick(_)
        pick(k) == IF k > Len(ev) THEN <<>>
                   ELSE IF ev[k].kind = "write" /\ ev[k].node = node
                   THEN <<ev[k].sample[1]>> \o pick(k + 1)
                   ELSE pick(k + 1)
    IN pick(1)

\* C14: LargeSetWriter.publish on a builder whose collection for the set is
\* empty sets metadata.size to 0, issues no element write, and leaves
\* metadata.updateElementID and updateElementTimestamp as they were.
C14_EmptySetLeavesMarker ==
    [][(PublishStep /\ builder.collections.items = <<>>) =>
          LET before == builder.base.itemsSetMetadata
              after == builder'.base.itemsSetMetadata
          IN /\ after.size = 0
             /\ WritesOn(wcalls'[Len(wcalls')].events, SetChild) = <<>>
             /\ after.updateElementID = before.updateElementID
             /\ after.updateElementTimestamp = before.updateElementTimestamp]_vars

\* C14, the case: a set published with elements, emptied by the application and
\* published again: the marker of the first publish is still in the metadata.
C14_EmptiedSetRepublished ==
    /\ Len(wcalls) = 2
    /\ wcalls[2].mutated
    /\ builder.collections.items = <<>>
    /\ builder.base.itemsSetMetadata.size = 0
    /\ builder.base.itemsSetMetadata.updateElementID # NIL_GUID
    /\ WritesOn(wcalls[1].events, SetChild) # <<>>

C18_NilSpecializationAllocated ==
    [][(/\ PublishStep
        /\ AttrPath \in DOMAIN builder.overlays_by_path
        /\ builder.overlays_by_path[AttrPath].specializationReferenceID = NIL_GUID) =>
          LET ev == wcalls'[Len(wcalls')].events
              gen == builder'.base.objective
          IN \E k \in Writes(ev) :
                LET G == ev[k].sample[1].specializationReferenceID
                IN /\ ev[k].node \in SpecTopics
                   /\ G \notin {None, NIL_GUID}
                   /\ G >= nextGuid /\ G < nextGuid'
                   /\ gen.specializationTopic = ev[k].node
                   /\ gen.specializationID = G
                   /\ \A m \in Writes(ev) :
                         ev[m].node = Root =>
                            /\ k < m
                            /\ ev[m].sample[1].objective = gen]_vars

\* C18, the case: a publish has written a specialization under a GUID it allocated.
C18_SpecializationWritten ==
    \E n \in 1..Len(wcalls) : \E k \in Writes(wcalls[n].events) :
        /\ wcalls[n].events[k].node \in SpecTopics
        /\ wcalls[n].events[k].sample[1].specializationReferenceID > MaxGuid

(* ------------------------------------------------------------------ *)
(* Claims about OverlayView                                            *)
(* ------------------------------------------------------------------ *)

\* The lookup of viewName on viewObj has returned or raised.
Looked == viewPc = "done"

NestedAt == Append(viewObj.path, viewName) \in DOMAIN viewObj.overlays_by_path

\* The object the lookup returned comes from the given source.
From(src) == viewResult.kind = "value" /\ viewResult.value[1].tag = Append(src, viewName)

ChildCalledBack == childLog' # childLog

\* Every overlay installed in the node's combined samples is still installed.
OverlaysKept ==
    \A k \in DOMAIN combined_by_key :
        \A p \in DOMAIN combined_by_key[k].overlays_by_path :
            p \in DOMAIN combined_by_key'[k].overlays_by_path

\* C20: operations on one ReaderNode are mutually exclusive: a child-assembled
\* callback runs into the node only while no thread is inside poll_once on it,
\* and no step overwrites a combined sample in which another thread installed
\* an overlay with one that lacks it.
C20_NodeOperationsExclusive ==
    [][(ChildCalledBack => pollSt.pc = "idle") /\ OverlaysKept]_vars

\* C20, the case: a key was emitted with its overlay installed and then again
\* without it.
C20_OverlayLostToRace ==
    \E i, j \in Emissions :
        /\ i < j
        /\ calls[i].key = calls[j].key
        /\ calls[i].combined[1].overlays_by_path # <<>>
        /\ calls[j].combined[1].overlays_by_path = <<>>

(* ------------------------------------------------------------------ *)
(* Claims about errors                                                 *)
(* ------------------------------------------------------------------ *)

\* poll_once drained the records the root's reader held in this step.
RootDrained == wire[Root] # <<>> /\ wire'[Root] = <<>>

\* C21: an exception raised by a decorator hook or by the consumer while one
\* record is processed is swallowed at the node: poll_once does not raise, and
\* every record of the drain is processed: each has its info stored under its
\* key, and each disposal has been notified.
C21_DrainSurvivesExceptions ==
    [][RootDrained =>
          /\ ~pollRaised'
          /\ \A n \in 1..Len(wire[Root]) :
                LET k == nextKey + n - 1
                IN /\ k \in DOMAIN info_by_key'
                   /\ ~wire[Root][n].info.valid =>
                         \E i \in 1..Len(calls') :
                            calls'[i].key = k /\ calls'[i].by = "dispose"]_vars

\* C21, the case: the consumer raised while poll_once processed a record that
\* was not the last of its drain.
C21_RaisedBeforeLastRecord ==
    /\ pollRaised
    /\ calls # <<>>
    /\ calls[Len(calls)].key < nextKey - 1

\* The positions of the failed writes among the events of a publish call.
Failed(ev) == {k \in 1..Len(ev) : ev[k].kind = "fail"}

\* C22: if a child transport write fails in the middle of publish, the failure
\* reaches the caller of the top-level publish and the failed write is the
\* last thing the call did: no later element and no base is written, nothing
\* written before it is written again, and the write is not attempted twice.
C22_WriteFailureEndsPublish ==
    [][PublishStep =>
          LET call == wcalls'[Len(wcalls')]
              ev == call.events
          IN Failed(ev) # {} =>
                /\ call.raised
                /\ Failed(ev) = {Len(ev)}
                /\ \A i, j \in 1..Len(ev) :
                      (i < j /\ ev[i].kind = "write" /\ ev[j].kind = "write"
                             /\ ev[i].node = ev[j].node)
                          => ev[i].sample[1].elementID # ev[j].sample[1].elementID]_vars

\* C22, the case: the write of a second element failed after the first element
\* of the same collection had been written.
C22_ElementWriteFailedMidway ==
    \E n \in 1..Len(wcalls) :
        LET ev == wcalls[n].events
        IN \E i, j \in 1..Len(ev) :
              /\ i < j
              /\ ev[i].kind = "write"
              /\ ev[j].kind = "fail"
              /\ ev[i].node = ev[j].node
              /\ ev[j].node # Root

\* The builder holds a specialization at attr_path, publish gets as far as
\* resolving its child, and no child WriterNode is attached for its topic.
Unresolvable(b) ==
    /\ b.collections_by_path # <<>>
    /\ AttrPath \in DOMAIN b.overlays_by_path
    /\ GenSpecWriter_spec_topic_name(b.overlays_by_path[AttrPath]) \notin SpecTopics

\* C23: if GenSpecWriter.publish finds a specialization at attr_path but no
\* child WriterNode for its topic, publish fails with an error to the caller,
\* neither the specialization nor the node's base is written and the
\* specialization's ID is left as it was; a later publish of the builder with
\* a resolvable specialization succeeds: the specialization's child publishes
\* (and writes it, when the child writes its base).
C23_UnresolvedFailsAndRecovers ==
    [][PublishStep =>
          LET call == wcalls'[Len(wcalls')]
              ev == call.events
          IN /\ Unresolvable(builder) =>
                   /\ call.raised
                   /\ \A k \in 1..Len(ev) :
                         ev[k].kind = "write" => ev[k].node \notin SpecTopics \cup {Root}
                   /\ builder'.overlays_by_path[AttrPath] = builder.overlays_by_path[AttrPath]
             /\ (/\ wcalls # <<>>
                 /\ wcalls[Len(wcalls)].raised
                 /\ builder.collections_by_path # <<>>
                 /\ ~Unresolvable(builder)) =>
                   /\ ~call.raised
                   /\ \E k \in 1..Len(ev) :
                         /\ ev[k].kind = IF writeBase[ev[k].node] THEN "write" ELSE "end"
                         /\ ev[k].node = builder.overlays_by_path[AttrPath].type]_vars

\* C23, the case: a publish failed for want of a child, the application put a
\* resolvable specialization in its place, and the next publish wrote it.
C23_RecoveredAfterUnresolved ==
    /\ Len(wcalls) = 2
    /\ wcalls[1].raised
    /\ wcalls[2].mutated
    /\ ~wcalls[2].raised
    /\ \E k \in 1..Len(wcalls[2].events) :
          /\ wcalls[2].events[k].kind = "write"
          /\ wcalls[2].events[k].node \in SpecTopics

\* C24: CombinedSample is value-like: a CombinedSample already handed to
\* parent_notify is never modified by later arrivals, so the collections it
\* shows now are those it showed when it was handed over.
C24_HandedSamplesUnchanged ==
    \A i \in 1..Len(calls) :
        calls[i].combined # <<>> => colls[calls[i].combined[1].coll] = calls[i].items

\* C24, the case: a CombinedSample was handed to parent_notify and a later
\* arrival completed the same key again.
C24_CompletedAgainAfterHandover ==
    \E i, j \in 1..Len(calls) :
        /\ i < j
        /\ calls[i].combined # <<>>
        /\ calls[j].combined # <<>>
        /\ calls[i].key = calls[j].key
        /\ calls[i].items # calls[j].items

\* C29: a ReaderNode with no decorators (a leaf element or specialization
\* reader) notifies its parent with a CombinedSample for every valid sample
\* it drains, so the parent's decorator receives each of them through
\* on_child_assembled.
C29_LeafNotifiesEverySample ==
    [][\A c \in Children :
          (wire[c] # <<>> /\ wire'[c] = <<>>) =>
              /\ Len(childLog') =
                    Len(childLog) + Cardinality({n \in 1..Len(wire[c]) : wire[c][n].info.valid})
              /\ \A n \in 1..Len(wire[c]) :
                    wire[c][n].info.valid =>
                        \E k \in (Len(childLog) + 1)..Len(childLog') :
                            /\ childLog'[k].child = c
                            /\ childLog'[k].base = wire[c][n].data]_vars

\* C29, the case: a leaf node drained a valid sample and holds its CombinedSample.
C29_LeafDrainedSample ==
    \E c \in Children : leaf_combined_by_key[c] # <<>>

(* ------------------------------------------------------------------ *)
(* Claims about UmaaCommand                                            *)
(* ------------------------------------------------------------------ *)

\* The entries of a log of one kind, in order.
Only(log, kind) ==
    LET RECURSIVE pick(_)
        pick(k) == IF k > Len(log) THEN <<>>
                   ELSE IF log[k].kind = kind THEN <<log[k]>> \o pick(k + 1)
                   ELSE pick(k + 1)
    IN pick(1)

\* The statuses execute has written, in order.
Statuses(log) == [k \in 1..Len(Only(log, "status")) |-> Only(log, "status")[k].status]

\* Entry k of the log was made while execute was inside on_executing for the
\* n-th time.
WhileExecuting(log, k, n) ==
    LET before == Only(SubSeq(log, 1, k - 1), "status")
    IN /\ log[k].at \in {"wait_for", "waiting", "woken", "on_executing"}
       /\ Cardinality({i \in 1..Len(before) : before[i].message = "executing"}) = n

\* The command was updated once, while executing, and then cancelled, while
\* executing again.
UpdatedThenCancelled(log) ==
    /\ Len(Only(log, "update")) = 1
    /\ Len(Only(log, "cancel")) = 1
    /\ \E u, k \in 1..Len(log) :
          /\ u < k
          /\ log[u].kind = "update" /\ WhileExecuting(log, u, 1)
          /\ log[k].kind = "cancel" /\ WhileExecuting(log, k, 2)

\* C27: when the command is issued, then updated once while executing, then
\* cancelled while executing, the statuses execute has written are ISSUED,
\* COMMANDED, EXECUTING, ISSUED, COMMANDED, EXECUTING, CANCELED, and the one
\* acknowledgement was written before the first of them.
C27_StatusFlowOfUpdateThenCancel ==
    (cmd # <<>> /\ cmd.pc = "done" /\ UpdatedThenCancelled(cmd.log)) =>
        /\ Statuses(cmd.log) = <<"ISSUED", "COMMANDED", "EXECUTING",
                                 "ISSUED", "COMMANDED", "EXECUTING", "CANCELED">>
        /\ cmd.log[1].kind = "ack"
        /\ Len(Only(cmd.log, "ack")) = 1

\* C27, the case: execute has returned for a command that was updated while
\* blocked in wait_for and cancelled while blocked in it again.
C27_UpdatedThenCancelledDone ==
    /\ cmd # <<>> /\ cmd.pc = "done"
    /\ UpdatedThenCancelled(cmd.log)
    /\ ~cmd.predicate /\ cmd.timeout = None

\* wait_for returns in this step.
WaitForReturns == cmd.pc \in {"wait_for", "woken"} /\ cmd'.pc = "on_executing"

\* C28: a wait_for that returns once the command is cancelled returns
\* (completed=False, updated=False), whatever the predicate and a pending
\* update say, and a cancel issued while wait_for is blocked, with or without
\* a deadline, wakes it so that it returns.
C28_CancelEndsWaitFor ==
    /\ [][(WaitForReturns /\ cmd.cancelled) =>
             cmd'.result = <<[completed |-> FALSE, updated |-> FALSE]>>]_vars
    /\ (cmd.pc = "waiting" /\ cmd.cancelled) ~> (cmd.pc = "on_executing")

\* C28, the case: wait_for has returned (False, False) after a cancel that
\* found it blocked without a deadline, the predicate true or an update pending.
C28_CancelledWaitReturned ==
    /\ cmd # <<>> /\ cmd.pc = "on_executing"
    /\ cmd.cancelled
    /\ cmd.result = <<[completed |-> FALSE, updated |-> FALSE]>>
    /\ cmd.predicate \/ cmd.updated

(* ------------------------------------------------------------------ *)
(* Claims about EventProcessor                                         *)
(* ------------------------------------------------------------------ *)

\* The one-off tasks submitted so far.
OneOffs == IF ep = <<>> THEN {} ELSE {t \in 1..Len(ep.tasks) : ep.tasks[t] = "oneoff"}

\* C25: every task submitted to an EventProcessor that stays running, and not
\* cancelled, is executed exactly once by some worker, and its future
\* completes with the value the callable or Command.execute returned: no task
\* is ever started twice, a finished future of a task that returned holds that
\* value after one execution, and a task nobody cancels is eventually finished.
C25_SubmittedTaskRunsOnce ==
    /\ [](\A t \in OneOffs :
             /\ ep.started[t] <= 1
             /\ (ep.futures[t].state = "FINISHED" /\ ~ep.fns[t].raises) =>
                   (ep.started[t] = 1 /\ ep.futures[t].result = ep.fns[t].value))
    /\ \A t \in 1..MaxTasks :
          (t \in OneOffs /\ t \notin ep.cancelled)
              ~> (t \in OneOffs /\ (t \in ep.cancelled \/ ep.futures[t].state = "FINISHED"))

\* C25, the case: a callable and a Command were submitted, nobody cancelled
\* them, and both futures hold their values.
C25_BothFuturesHoldResults ==
    /\ OneOffs = {1, 2}
    /\ ep.cancelled = {}
    /\ \A t \in OneOffs : ep.futures[t] = [state |-> "FINISHED", result |-> ep.fns[t].value]
    /\ ep.fns[1].kind # ep.fns[2].kind

\* The recurring tasks registered so far.
Recurring == {t \in 1..Len(ep.tasks) : ep.tasks[t] = "recurring"}

\* How many times task t sits in the recurring queue or in the scheduler's
\* hands between its heappop and its heappush.
Scheduled(t) ==
    Cardinality({rt \in ep.recurring_queue : rt.task_id = t})
        + (IF ep.srt # <<>> /\ ep.srt[1].task_id = t THEN 1 ELSE 0)

\* A recurring task that is not cancelled is scheduled exactly once.
RecurringQueuedOnce == \A t \in Recurring : t \notin ep.cancelled => Scheduled(t) = 1

\* A recurring task that is due and not cancelled is enqueued for execution.
RequeuedEachInterval ==
    \A n \in 0..MaxClock :
        (/\ ep.pushed = n
         /\ \E rt \in ep.recurring_queue :
                rt.task_id \notin ep.cancelled /\ rt.next_run_time <= ep.clock)
            ~> (ep.pushed > n \/ Recurring \cap ep.cancelled # {})

\* Once cancel(task_id) has returned, no execution of the task starts and the
\* task is not pushed on the recurring queue again.
CancelledStaysStopped ==
    [][\A t \in Recurring :
          (t \in ep.cancelled /\ ep.cancelling # t) =>
              /\ ep'.started[t] = ep.started[t]
              /\ ep'.requeued = ep.requeued]_vars

\* C26: a recurring task stays in the recurring queue exactly once and is
\* enqueued for execution after every elapsed interval for as long as it is not
\* cancelled; once cancel(task_id) has returned no new execution of it is
\* started and it is never rescheduled.
C26_RecurringUntilCancelled ==
    /\ []RecurringQueuedOnce
    /\ RequeuedEachInterval
    /\ CancelledStaysStopped

\* cancel returned while a worker held a Task of the recurring task past its
\* cancellation test, or while the scheduler held the task past its own.
C26_CancelledPastTheTest ==
    \E t \in Recurring :
        /\ t \in ep.cancelled /\ ep.cancelling # t
        /\ \/ \E w \in Workers : ep.wpc[w] = "run" /\ ep.wtask[w][1].task_id = t
           \/ ep.spc = "enqueue" /\ ep.srt[1].task_id = t

\* Every worker thread and the scheduler thread have left their loops.
ThreadsExited == ep.spc = "exited" /\ \A w \in Workers : ep.wpc[w] = "exited"

\* C30: stop(wait=True) on a running EventProcessor returns: from whatever
\* state the workers and the scheduler are in when stop takes the start/stop
\* lock, all of them exit and the caller comes back from stop.
C30_StopWaitReturns ==
    (ep.stpc = "wake_workers" /\ ep.wait) ~> (ep.stpc = "returned" /\ ThreadsExited)

\* C30, the case: stop(wait=True) has pushed the exit signals and joins the
\* scheduler thread, which is at its test of running(), while a worker that
\* was running a task is back at its own test of running().
C30_StopJoinsThreadsAtRunning ==
    /\ ep.stpc = "join_scheduler" /\ ep.wait /\ ep.ss = StopThread
    /\ ep.spc = "loop"
    /\ \E w \in Workers : ep.wpc[w] = "check" /\ ep.q = w /\ \E t \in Recurring : ep.started[t] > 0

(* ------------------------------------------------------------------ *)
(* Claims about decorators sharing a node                              *)
(* ------------------------------------------------------------------ *)

\* What the decorator of a role installed is in the combined sample the node
\* stores for key k: the overlay for gen_spec, the collection for a set or list.
Installed(role, k) ==
    LET c == combined_by_key[k]
    IN IF role = GenRole THEN c.overlay # <<>> \/ c.overlays_by_path # <<>>
       ELSE role \in DOMAIN colls[c.coll]

\* C31: on a node with two decorators, what one decorator installed for an
\* assembly key is still in the node's stored combined sample after the other
\* decorator processed the same base sample or completed later, in either
\* registration order and either arrival order.
C31_InstalledPartsKept ==
    \A k \in DOMAIN signalled : \A role \in signalled[k] : Installed(role, k)

\* C31, the case: gen_spec, registered before the set decorator, and the set
\* decorator have both signalled complete for one key.
C31_BothInstalledForOneKey ==
    /\ decorators = <<GenRole, SetName>>
    /\ \E k \in DOMAIN signalled : signalled[k] = {GenRole, SetName}

\* A child called the parent_notify attach_child gave it in this step.
ChildNotified == arrivals' # arrivals /\ wire' = wire

\* The buffers of the decorators registered under the other roles stay as they are.
OtherRolesUntouched(role) ==
    /\ role # SetName => UNCHANGED <<elems_by_set, meta_by_set, parent_key_by_set>>
    /\ role # ListName => UNCHANGED <<elems_by_list, meta_by_list, parent_key_by_list>>
    /\ role # GenRole => UNCHANGED <<gen_by_spec_id, spec_by_topic_id, parent_key_by_spec_id>>

\* C32: a child's assembled sample reaches the parent through the decorator
\* registered under the role the child was attached with and no other: it is
\* handed to that decorator's on_child_assembled, the other decorators' state
\* stays as it is and every parent notification the step makes comes from that
\* decorator; a child notification with combined=None changes no parent
\* state and makes no parent notification.
C32_ChildReachesItsRoleOnly ==
    [][ChildNotified =>
          IF childLog' = childLog
          THEN UNCHANGED <<combined_by_key, info_by_key, colls, calls, signalled, buf, heard,
                           elems_by_set, meta_by_set, parent_key_by_set,
                           elems_by_list, meta_by_list, parent_key_by_list,
                           gen_by_spec_id, spec_by_topic_id, parent_key_by_spec_id>>
          ELSE LET e == childLog'[Len(childLog')]
               IN /\ Len(childLog') = Len(childLog) + 1
                  /\ e.role = RoleOfChild(e.child)
                  /\ \E i \in 1..Len(decorators) : decorators[i] = e.role
                  /\ OtherRolesUntouched(e.role)
                  /\ \A i \in (Len(calls) + 1)..Len(calls') : calls'[i].by = e.role]_vars

\* C32, the case: on a node with two decorators holding a base sample, one
\* child notified None and another child's sample completed the assembly.
C32_NoneAndSampleNotified ==
    /\ Len(decorators) = 2
    /\ arrivals = 3 /\ Len(childLog) = 1 /\ wire[Root] = <<>> /\ combined_by_key # <<>>
    /\ calls # <<>> /\ calls[Len(calls)].via = "child"

(* ------------------------------------------------------------------ *)
(* Claims about the order and the cancellation of tasks                *)
(* ------------------------------------------------------------------ *)

\* Worker w took a task off the queue in this step.
Dequeued(w) == ep.wpc[w] = "check" /\ ep'.wpc[w] = "got"

CancelDone(t) ==
    \/ ep.futures[t].state = "CANCELLED"
    \/ t \in ep.cancelled /\ ep.cancelling # t

\* C34: a one-off task whose cancellation, through its future or through
\* cancel(task_id), is done before a worker has begun running it is never
\* executed; a task that is running is not cancelled by either and runs to
\* completion, its future finished.
C34_CancelBeforeRunOrNotAtAll ==
    /\ [][\A t \in OneOffs :
             /\ (CancelDone(t) /\ ep.started[t] = 0) => ep'.started[t] = 0
             /\ ep.futures[t].state = "RUNNING" =>
                    ep'.futures[t].state \in {"RUNNING", "FINISHED"}]_vars
    /\ \A t \in 1..MaxTasks :
          (t \in OneOffs /\ ep.futures[t].state = "RUNNING")
              ~> (t \in OneOffs /\ ep.futures[t].state = "FINISHED" /\ ep.started[t] = 1)

\* C34, the case: cancel(task_id) has returned for one task while a worker is
\* running it, and another task's future was cancelled before any worker ran it.
C34_CancelledRunningAndWaiting ==
    \E t, u \in OneOffs :
        /\ t \in ep.cancelled /\ ep.cancelling # t
        /\ ep.futures[t].state = "RUNNING"
        /\ \E w \in Workers : ep.wpc[w] = "running" /\ ep.wtask[w][1].task_id = t
        /\ u \notin ep.cancelled /\ ep.futures[u].state = "CANCELLED" /\ ep.started[u] = 0

(* ------------------------------------------------------------------ *)
(* Claims about submitting to a processor that is stopped              *)
(* ------------------------------------------------------------------ *)

\* C35: no future returned by submit stays pending forever, however submit
\* and stop interleave: every accepted task is executed, its future finished,
\* or its future is cancelled.
C35_AcceptedFutureResolves ==
    \A t \in 1..MaxTasks :
        (t \in OneOffs) ~> (t \in OneOffs /\ ep.futures[t].state \in {"FINISHED", "CANCELLED"})

\* C35, the case: stop(wait=False) has returned and every worker has left
\* its loop while a task submit accepted is still queued, its future pending.
C35_StoppedWithTaskQueued ==
    /\ ep.stpc = "returned" /\ ~ep.wait
    /\ \A w \in Workers : ep.wpc[w] = "exited"
    /\ \E task \in ep.task_queue :
          /\ task.task_id \in OneOffs
          /\ ep.futures[task.task_id].state = "PENDING"

\* A call of submit or submit_recurring raised RuntimeError in this step.
Rejected == ep'.rejected # ep.rejected

\* A call of submit or submit_recurring got past its test of running() in this step.
Admitted ==
    \/ ep.subpc = "idle" /\ ep'.subpc = "push"
    \/ ep.recpc = "idle" /\ ep'.recpc = "push"

\* C36: submit and submit_recurring called while the processor is not running
\* raise RuntimeError and leave the task queue, the recurring queue and the
\* task registry as they are: no call gets past its test of running() once the
\* processor is stopped, and the call that raises changes nothing else.
C36_SubmitToStoppedRaises ==
    [][/\ Admitted => ep.running
       /\ Rejected =>
             /\ ~ep.running
             /\ ep'.task_queue = ep.task_queue
             /\ ep'.recurring_queue = ep.recurring_queue
             /\ ep'.tasks = ep.tasks /\ ep'.futures = ep.futures
             /\ ep'.sequence = ep.sequence]_vars

\* C36, the case: stop has returned and a later call raised RuntimeError while
\* an earlier task was registered.
C36_RejectedAfterStop ==
    /\ ep.stpc = "returned" /\ ~ep.running
    /\ ep.rejected > 0
    /\ Len(ep.tasks) > 0

(* ------------------------------------------------------------------ *)
(* Claims about the classifier                                         *)
(* ------------------------------------------------------------------ *)

\* A's required attributes are a proper subset of B's.
MoreSpecific(A, B) == UMAAConcept[A] \subseteq UMAAConcept[B] /\ UMAAConcept[A] # UMAAConcept[B]

\* The concepts whose required attributes the object at path p all has.
Matching(p) ==
    {c \in DOMAIN UMAAConcept : UMAAConcept[c] \subseteq ObjectsByPath(cls.obj)[p]}

\* The classification recorded at path p, empty when the map has no entry.
Recorded(p) == IF p \in DOMAIN cls.cmap THEN cls.cmap[p] ELSE {}

\* C37: the classifier keeps the most specific concepts only: of two matching
\* concepts of which the first requires a proper subset of the second's
\* attributes the first is not recorded, and every matching concept that is
\* no proper subset of another matching concept is recorded.
C37_MostSpecificConceptsKept ==
    cls.pc = "done" =>
        \A p \in DOMAIN ObjectsByPath(cls.obj) :
            /\ Recorded(p) \subseteq Matching(p)
            /\ \A A, B \in Matching(p) : MoreSpecific(A, B) => A \notin Recorded(p)
            /\ \A A \in Matching(p) :
                  (~\E B \in Matching(p) : MoreSpecific(A, B)) => A \in Recorded(p)

\* C37, the case: an object with the attributes of a command and of an
\* acknowledgement, which are also those of an execution status and a report,
\* classified as the first two alone.
C37_CommandAndAcknowledgement ==
    /\ cls.pc = "done"
    /\ Matching(<<>>) = {"COMMAND", "ACKNOWLEDGEMENT", "EXECUTION_STATUS", "REPORT"}
    /\ Recorded(<<>>) = {"COMMAND", "ACKNOWLEDGEMENT"}

(* ------------------------------------------------------------------ *)
(* Claims about the end of a command                                   *)
(* ------------------------------------------------------------------ *)

\* The positions in the log of the entries of one kind.
At(log, kind) == {k \in 1..Len(log) : log[k].kind = kind}

\* The positions of the FAILED statuses.
FailedAt(log) == {k \in At(log, "status") : log[k].status = "FAILED"}

\* C38: execute ends its lifecycle exactly once on every path: on_terminal is
\* invoked once, after the last status is written, however the command ends;
\* when a hook raises, one FAILED status is written, after the raise, and no
\* status follows it.
C38_LifecycleEndsOnce ==
    LET log == cmd.log
    IN /\ Cardinality(At(log, "on_terminal")) = (IF cmd.pc = "done" THEN 1 ELSE 0)
       /\ \A t \in At(log, "on_terminal") : \A k \in At(log, "status") : k < t
       /\ Cardinality(FailedAt(log)) <= 1
       /\ \A f \in FailedAt(log) :
             /\ \A k \in At(log, "status") : k <= f
             /\ \E r \in At(log, "raise") : r < f
             /\ log[f].reason = (IF cmd.raises.exception = "UmaaCommandException"
                                  THEN "uce.reason" ELSE "SERVICE_FAILED")
       /\ (cmd.pc \in {"terminal", "done"} /\ At(log, "raise") # {}) => FailedAt(log) # {}
       /\ (cmd.pc = "done" /\ At(log, "raise") = {}) =>
             log[CHOOSE k \in At(log, "status") : \A j \in At(log, "status") : j <= k].message
                 \in {"canceled", "completed"}

\* C38, the case: the command was updated, then on_complete raised an
\* exception that is no UmaaCommandException, on_error raised as well, and
\* execute has ended.
C38_UpdatedThenFailed ==
    /\ cmd.pc = "done"
    /\ cmd.raises = [hook |-> "on_complete", exception |-> "Exception", handler |-> TRUE]
    /\ cmd.propagates
    /\ At(cmd.log, "update") # {}
    /\ \E k \in At(cmd.log, "status") : cmd.log[k].reason = "UPDATED"

(* ------------------------------------------------------------------ *)
(* Claims about the adapter's buffer                                   *)
(* ------------------------------------------------------------------ *)

\* The CombinedSamples the root handed to parent_notify, in order.
Emitted ==
    LET some == SelectSeq(calls, LAMBDA c : c.combined # <<>>)
    IN [k \in 1..Len(some) |-> some[k].combined]

RECURSIVE TakenOut(_)
\* What the take calls returned, in order, one list after the other.
TakenOut(taken) ==
    IF taken = <<>> THEN <<>> ELSE taken[1].out \o TakenOut(Tail(taken))

\* C39: every CombinedSample the root emits to the adapter is in the buffer
\* by the time the listener is called, and is returned by exactly one take:
\* the takes so far and the buffer hold the emitted samples once each, in
\* emission order, and a read returns samples that were emitted before it.
C39_EmittedIsBufferedAndTakenOnce ==
    adp # <<>> =>
        /\ TakenOut(adp.taken) \o buf = Emitted
        /\ heard <= Len(Emitted)
        /\ \A k \in 1..Len(adp.seen) :
              \A j \in 1..Len(adp.seen[k].out) :
                 \E e \in 1..Len(Emitted) : Emitted[e] = adp.seen[k].out[j]

\* C39, the case: the root emitted a completed CombinedSample to the adapter
\* and a take made after the emission returned nothing.
C39_TakeAfterEmissionIsEmpty ==
    /\ adp # <<>>
    /\ Emitted # <<>>
    /\ \E k \in 1..Len(adp.taken) :
          /\ adp.taken[k].out = <<>>
          /\ \E c \in 1..adp.taken[k].after : calls[c].combined # <<>> /\ ~calls[c].ok

(* ------------------------------------------------------------------ *)
(* Claims about the singletons                                         *)
(* ------------------------------------------------------------------ *)

\* C40: the singletons are created once: the threads that construct the class
\* concurrently all obtain the same instance, the initialisation body runs
\* once, and one DomainParticipant (one worker pool and scheduler) exists.
C40_CreatedAndInitialisedOnce ==
    inst # <<>> =>
        /\ inst.objects <= 1
        /\ \A t \in Constructors : inst.got[t] \in {None, inst.instance}
        /\ inst.bodies <= 1
        /\ inst.resources <= 1

\* C40, the case: every thread has returned from the constructor with the
\* same instance, and the initialisation body ran more than once.
C40_SameInstanceInitialisedTwice ==
    /\ inst # <<>>
    /\ \A t \in Constructors : inst.pc[t] = "done" /\ inst.got[t] = inst.instance
    /\ inst.objects = 1
    /\ inst.bodies > 1
    /\ inst.resources > 1


====
